---- MODULE Spec2Model ----
(***************************************************************************)
(* Model of the aws_kms_grant resource (src/unnamed/part_000):             *)
(* resourceAwsKmsGrantCreate / Read / Delete / Exists, the paginated       *)
(* finder findKmsGrantById with its retry wrappers, and the constraint     *)
(* validator.  The remote KMS service is the environment: it answers       *)
(* CreateGrant, ListGrants and RevokeGrant and makes created and revoked   *)
(* grants visible in the listing with a lag (eventual consistency).        *)
(***************************************************************************)
EXTENDS Integers, Sequences, FiniteSets, TLC

VARIABLES
    constraints,    \* d.Get("constraints"): the configured constraint set
    name,           \* d.GetOk("name"): Nil when the configuration sets no name
    validated,      \* the validator has been applied to constraints
    isValid,        \* its result
    arg,            \* input of the function applied by a function-level specification
    res,            \* its result
    home,           \* remote: the listing page each grant id is on
    visible,        \* remote: grant ids ListGrants currently shows
    remoteGrants,   \* remote: grant ids that exist (created, not revoked)
    issued,         \* remote: grant ids ever assigned by CreateGrant
    id,             \* d.Id(), "" when unset
    grant_id,       \* d.Get("grant_id"), "" when unset
    grant_token,    \* d.Get("grant_token"), "" when unset
    op,             \* the handler running, or the last one that ran
    pc,             \* "idle", "CreateGrant", "ListGrants" or "crashed"
    target,         \* grantId argument of the finder
    marker,         \* marker argument of the current findKmsGrantById frame
    createAttempts, \* CreateGrant calls made by the retry loop of Create
    pageAttempts,   \* failed ListGrants calls of the page-fetch retry loop
    findAttempts,   \* lookups completed by the caller's retry loop
    ret,            \* error returned by the last handler ("nil" = success)
    existsRet,      \* boolean returned by resourceAwsKmsGrantExists
    revokeCalls,    \* history: RevokeGrant calls issued by this handler
    walk,           \* history: markers of the pages fetched by this lookup
    foundOnPage,    \* history: a fetched page contained the target
    listed,         \* history: the target was visible at some time in this handler
    idBefore,       \* history: d.Id() when the handler started
    createdId,      \* history: GrantId returned by CreateGrant
    pageErr,        \* history: error the last page-fetch retry loop ended with
    callErr,        \* history: error of the last CreateGrant / RevokeGrant call
    deadline,       \* history: a retry loop ended because its deadline passed
    listErr,        \* history: error of the last ListGrants call
    misses,         \* history: lookups of this handler that returned missing
    finderRet,      \* history: what the last findKmsGrantById call returned
    walkView        \* history: how the listing showed the target since the
                    \* current lookup began: "listed" on one page all along,
                    \* "moved" to another page while listed, else "unlisted"

vars == <<constraints, name, validated, isValid, arg, res, home, visible,
          remoteGrants, issued, id, grant_id, grant_token, op, pc, target,
          marker, createAttempts, pageAttempts, findAttempts, ret, existsRet,
          revokeCalls, walk, foundOnPage, listed, idBefore, createdId, pageErr,
          callErr, deadline, listErr, misses, finderRet, walkView>>

configVars == <<constraints, name, validated, isValid, arg, res>>
remoteVars == <<home, visible, remoteGrants, issued>>
dataVars   == <<id, grant_id, grant_token>>
finderVars == <<target, marker, pageAttempts, findAttempts>>
histVars   == <<revokeCalls, walk, foundOnPage, listed, idBefore, createdId,
                pageErr, callErr, deadline, listErr, misses, finderRet,
                walkView>>

----------------------------------------------------------------------------
(* Bounds *)

NPages      == 2    \* pages of the key's grant listing
MaxAttempts == 2    \* attempts a retry loop can make before its deadline
MaxLookups  == 3    \* lookups the finder's caller can make before its deadline,
                    \* in the lifecycle over a listing whose pages move
MaxElems    == 2    \* elements of a configured constraint set
MaxIdLen    == 5    \* characters of an id given to the importer
MaxActions  == 2    \* action blocks, and positions, of a receipt rule

----------------------------------------------------------------------------
(* Values *)

GrantIds == {"g1", "g2"}

\* the optional name of the configuration, which CreateGrant gives the grant
\* and ListGrants reports as the Name of its entry: no name, or a name
GrantNames == {<< >>, <<"n">>}
IdOrder  == <<"g1", "g2">>

Kinds == {"encryption_context_equals", "encryption_context_subset"}
Keys  == {"x", "y"}
Vals  == {"1", "2"}

\* map[string]interface{} of an encryption context
StringMaps == UNION {[S -> Vals] : S \in SUBSET Keys}

\* an element of the constraints set as the schema reads it from the
\* configuration: both kinds present, an unset kind is the empty map
ConfigElems == [Kinds -> StringMaps]

EmptyMap == << >>
X1 == [k \in {"x"} |-> "1"]
Y2 == [k \in {"y"} |-> "2"]

Elem(eq, sub) == [k \in Kinds |->
                    IF k = "encryption_context_equals" THEN eq ELSE sub]

\* the constraint sets the resource is configured with in the lifecycle model
LifecycleConstraints ==
    { {},
      {Elem(X1, EmptyMap)},
      {Elem(X1, Y2)},
      {Elem(X1, EmptyMap), Elem(EmptyMap, Y2)} }

\* error values: awserr.Error codes, and one error that is not an awserr.Error
AwsCodes == {"DependencyTimeoutException", "InternalException",
             "InvalidArnException", "NotFoundException"}
PlainErr == "RequestCanceled"
ApiErrors == AwsCodes \cup {PlainErr}

ValidationError      == "ValidationError"
KmsGrantMissingError == "KmsGrantMissingError"
StillExistsError     == "GrantStillExists"
Panic                == "panic"

NoReturn == [grant |-> "nil", err |-> "none", walk |-> << >>]

----------------------------------------------------------------------------
(* The resource definition: resourceAwsKmsGrant *)

\* the operations the resource registers; there is no Update
ResourceHandlers == {"create", "read", "delete", "exists"}

\* variant: name can be changed in place
Schema_NameInPlace ==
    [name                  |-> [Computed |-> FALSE, ForceNew |-> FALSE],
     key_id                |-> [Computed |-> FALSE, ForceNew |-> TRUE],
     grantee_principal     |-> [Computed |-> FALSE, ForceNew |-> TRUE],
     operations            |-> [Computed |-> FALSE, ForceNew |-> TRUE],
     constraints           |-> [Computed |-> FALSE, ForceNew |-> TRUE],
     retiring_principal    |-> [Computed |-> FALSE, ForceNew |-> TRUE],
     grant_creation_tokens |-> [Computed |-> FALSE, ForceNew |-> TRUE],
     grant_id              |-> [Computed |-> TRUE,  ForceNew |-> FALSE],
     grant_token           |-> [Computed |-> TRUE,  ForceNew |-> FALSE]]

\* the attributes of the schema; Computed is set on the attributes that are
\* only computed, which the configuration cannot set
Schema ==
    [name                  |-> [Computed |-> FALSE, ForceNew |-> TRUE],
     key_id                |-> [Computed |-> FALSE, ForceNew |-> TRUE],
     grantee_principal     |-> [Computed |-> FALSE, ForceNew |-> TRUE],
     operations            |-> [Computed |-> FALSE, ForceNew |-> TRUE],
     constraints           |-> [Computed |-> FALSE, ForceNew |-> TRUE],
     retiring_principal    |-> [Computed |-> FALSE, ForceNew |-> TRUE],
     grant_creation_tokens |-> [Computed |-> FALSE, ForceNew |-> TRUE],
     grant_id              |-> [Computed |-> TRUE,  ForceNew |-> FALSE],
     grant_token           |-> [Computed |-> TRUE,  ForceNew |-> FALSE]]

\* the fields of a constraints element
ConstraintsElemSchema ==
    [encryption_context_equals |-> [Computed |-> FALSE, ForceNew |-> TRUE],
     encryption_context_subset |-> [Computed |-> FALSE, ForceNew |-> TRUE]]

----------------------------------------------------------------------------
(* Constraint validation: kmsGrantConstraintsIsValid *)

\* len(v) of a Go map
MapLen(m) == Cardinality(DOMAIN m)

\* variant: the second kind is tested in an else-branch, so an element
\* counts once however many of its mappings are non-empty
ElemConstraintCount_ElseIf(data) ==
    IF "encryption_context_equals" \in DOMAIN data
       /\ MapLen(data["encryption_context_equals"]) > 0
    THEN 1
    ELSE IF "encryption_context_subset" \in DOMAIN data
            /\ MapLen(data["encryption_context_subset"]) > 0
         THEN 1 ELSE 0

\* one iteration of the loop body: the two type-asserted lookups and the
\* len(v) > 0 tests
ElemConstraintCount(data) ==
    (IF "encryption_context_equals" \in DOMAIN data
        /\ MapLen(data["encryption_context_equals"]) > 0 THEN 1 ELSE 0)
  + (IF "encryption_context_subset" \in DOMAIN data
        /\ MapLen(data["encryption_context_subset"]) > 0 THEN 1 ELSE 0)

\* the loop over constraints.List()
RECURSIVE ConstraintCount(_)
ConstraintCount(set) ==
    IF set = {} THEN 0
    ELSE LET raw == CHOOSE e \in set : TRUE
         IN  ElemConstraintCount(raw) + ConstraintCount(set \ {raw})

\* variant: the threshold is off by one
kmsGrantConstraintsIsValid_OffByOne(set) ==
    IF ConstraintCount(set) > 2 THEN FALSE ELSE TRUE

kmsGrantConstraintsIsValid(set) ==
    IF ConstraintCount(set) > 1 THEN FALSE ELSE TRUE

----------------------------------------------------------------------------
(* Error classification in the retry closures *)

\* variant: InvalidArnException is not in the retryable list
CreateGrantRetryable_NoInvalidArn(e) ==
    /\ e \in AwsCodes
    /\ \/ e = "DependencyTimeoutException"
       \/ e = "InternalException"

\* variant: InternalException is not in the retryable list
CreateGrantRetryable_NoInternal(e) ==
    /\ e \in AwsCodes
    /\ \/ e = "DependencyTimeoutException"
       \/ e = "InvalidArnException"

\* the closure passed to resource.Retry in resourceAwsKmsGrantCreate
CreateGrantRetryable(e) ==
    /\ e \in AwsCodes
    /\ \/ e = "DependencyTimeoutException"
       \/ e = "InternalException"
       \/ e = "InvalidArnException"

\* the error the closure hands to resource.Retry for a retryable failure: a
\* new error made of a text and the text of the failure; it is no
\* awserr.Error and has no code
CreateGrantRetryError(e) ==
    "[WARN] Error adding new KMS Grant for key: key, retrying " \o e

\* what the closure returns for a failed CreateGrant call: the new error, to
\* be retried, or the error of the call, not to be retried
CreateGrantClosure(e) ==
    IF CreateGrantRetryable(e)
    THEN [retry |-> TRUE, err |-> CreateGrantRetryError(e)]
    ELSE [retry |-> FALSE, err |-> e]

\* variant: NotFoundException is not in the retryable list
ListGrantsRetryable_NoNotFound(e) ==
    /\ e \in AwsCodes
    /\ \/ e = "DependencyTimeoutException"
       \/ e = "InternalException"

\* the closure passed to resource.Retry in findKmsGrantById
ListGrantsRetryable(e) ==
    /\ e \in AwsCodes
    /\ \/ e = "NotFoundException"
       \/ e = "DependencyTimeoutException"
       \/ e = "InternalException"

\* variant: the missing error is swallowed instead of retried
findKmsGrantByIdWithRetryStep_MissingIsSuccess(grant, err) ==
    IF err # "nil"
    THEN IF err = KmsGrantMissingError
         THEN [class |-> "success", err |-> "nil"]
         ELSE [class |-> "fatal", err |-> err]
    ELSE [class |-> "success", err |-> "nil"]

\* variant: the missing error ends the loop like any other error
findKmsGrantByIdWithRetryStep_MissingIsFatal(grant, err) ==
    IF err # "nil"
    THEN [class |-> "fatal", err |-> err]
    ELSE [class |-> "success", err |-> "nil"]

\* variant: the error of a missing result is lost when it is retried
findKmsGrantByIdWithRetryStep_TimeoutDropped(grant, err) ==
    IF err # "nil"
    THEN IF err = KmsGrantMissingError
         THEN [class |-> "retry", err |-> "nil"]
         ELSE [class |-> "fatal", err |-> err]
    ELSE [class |-> "success", err |-> "nil"]

\* the closure of findKmsGrantByIdWithRetry: what one lookup's result means
\* for the retry loop
findKmsGrantByIdWithRetryStep(grant, err) ==
    IF err # "nil"
    THEN IF err = KmsGrantMissingError
         THEN [class |-> "retry", err |-> err]
         ELSE [class |-> "fatal", err |-> err]
    ELSE [class |-> "success", err |-> "nil"]

\* variant: the missing error is not recognised
waitForKmsGrantToBeRevokedStep_MissingIsFatal(grant, err) ==
    IF grant # "nil"
    THEN [class |-> "retry", err |-> StillExistsError]
    ELSE IF err = "nil"
         THEN [class |-> "success", err |-> "nil"]
         ELSE [class |-> "fatal", err |-> err]

\* the closure of waitForKmsGrantToBeRevoked; resource.NonRetryableError(nil)
\* is nil, that is, success
waitForKmsGrantToBeRevokedStep(grant, err) ==
    IF err # "nil" /\ err = KmsGrantMissingError
    THEN [class |-> "success", err |-> "nil"]
    ELSE IF grant # "nil"
         THEN [class |-> "retry", err |-> StillExistsError]
         ELSE IF err = "nil"
              THEN [class |-> "success", err |-> "nil"]
              ELSE [class |-> "fatal", err |-> err]

\* resource.Retry: whether the deadline has passed once attempt number
\* n + 1 (after n earlier ones) has failed with a retryable error.  Time is abstract: the deadline
\* may pass after any attempt and has passed after MaxAttempts attempts.
DeadlineAfter(n, max) == IF n + 1 >= max THEN {TRUE} ELSE {TRUE, FALSE}

DeadlinePassed(n) == DeadlineAfter(n, MaxAttempts)

----------------------------------------------------------------------------
(* The paginated finder *)

\* a page of the listing: the visible grants the listing holds on page p at
\* the time of the call; home changes when the listing is repaginated
PageSeq(p) == SelectSeq(IdOrder, LAMBDA g : g \in visible /\ home[g] = p)

\* Go pointers are sequences of length at most one: << >> is nil
Nil == << >>
Ptr(v) == <<v>>
Deref(p) == p[1]

\* kms.ListGrantsResponse of a successful ListGrants call with the given
\* marker; a marker is the number of pages already delivered
ListGrantsResponse(m) ==
    LET start == IF m = Nil THEN 0 ELSE Deref(m)
    IN  [Grants     |-> PageSeq(start + 1),
         Truncated  |-> Ptr(start + 1 < NPages),
         NextMarker |-> IF start + 1 < NPages THEN Ptr(start + 1) ELSE Nil]

\* the response value of a ListGrants call that returned an error: the SDK
\* hands back the output struct with no field set
EmptyListGrantsResponse ==
    [Grants |-> << >>, Truncated |-> Nil, NextMarker |-> Nil]

\* variant: the first entry of the page is returned whatever its id
getKmsGrantById_FirstEntry(grants, grantIdentifier) ==
    IF grants = << >> THEN "nil" ELSE Head(grants)

RECURSIVE getKmsGrantById(_, _)
getKmsGrantById(grants, grantIdentifier) ==
    IF grants = << >> THEN "nil"
    ELSE IF Head(grants) = grantIdentifier THEN Head(grants)
         ELSE getKmsGrantById(Tail(grants), grantIdentifier)

\* variant: the truncation test comes before the match test
findKmsGrantByIdPage_TruncatedFirst(out, grantId) ==
    LET grant == getKmsGrantById(out.Grants, grantId)
    IN  IF out.Truncated = Nil
        THEN IF grant # "nil"
             THEN [kind |-> "return", grant |-> grant, err |-> "nil",
                   marker |-> Nil]
             ELSE [kind |-> "panic", grant |-> "nil", err |-> Panic,
                   marker |-> Nil]
        ELSE IF Deref(out.Truncated)
             THEN IF out.NextMarker = Nil
                  THEN [kind |-> "panic", grant |-> "nil", err |-> Panic,
                        marker |-> Nil]
                  ELSE [kind |-> "recurse", grant |-> "nil", err |-> "nil",
                        marker |-> out.NextMarker]
             ELSE IF grant # "nil"
                  THEN [kind |-> "return", grant |-> grant, err |-> "nil",
                        marker |-> Nil]
                  ELSE [kind |-> "return", grant |-> "nil",
                        err |-> KmsGrantMissingError, marker |-> Nil]

\* variant: an exhausted listing returns (nil, nil)
findKmsGrantByIdPage_NilNil(out, grantId) ==
    LET grant == getKmsGrantById(out.Grants, grantId)
    IN  IF grant # "nil"
        THEN [kind |-> "return", grant |-> grant, err |-> "nil", marker |-> Nil]
        ELSE IF out.Truncated = Nil
             THEN [kind |-> "panic", grant |-> "nil", err |-> Panic,
                   marker |-> Nil]
             ELSE IF Deref(out.Truncated)
                  THEN IF out.NextMarker = Nil
                       THEN [kind |-> "panic", grant |-> "nil", err |-> Panic,
                             marker |-> Nil]
                       ELSE [kind |-> "recurse", grant |-> "nil",
                             err |-> "nil", marker |-> out.NextMarker]
                  ELSE [kind |-> "return", grant |-> "nil", err |-> "nil",
                        marker |-> Nil]

\* the code of findKmsGrantById after the page-fetch retry loop (the loop's
\* error is not looked at): return the match, recurse with the page's
\* NextMarker, or return the missing error; dereferencing a nil Truncated
\* panics, and so does dereferencing a nil NextMarker for the log line of a
\* truncated page
findKmsGrantByIdPage(out, grantId) ==
    LET grant == getKmsGrantById(out.Grants, grantId)
    IN  IF grant # "nil"
        THEN [kind |-> "return", grant |-> grant, err |-> "nil", marker |-> Nil]
        ELSE IF out.Truncated = Nil
             THEN [kind |-> "panic", grant |-> "nil", err |-> Panic,
                   marker |-> Nil]
             ELSE IF Deref(out.Truncated)
                  THEN IF out.NextMarker = Nil
                       THEN [kind |-> "panic", grant |-> "nil", err |-> Panic,
                             marker |-> Nil]
                       ELSE [kind |-> "recurse", grant |-> "nil",
                             err |-> "nil", marker |-> out.NextMarker]
                  ELSE [kind |-> "return", grant |-> "nil",
                        err |-> KmsGrantMissingError, marker |-> Nil]

----------------------------------------------------------------------------
(* What the handlers do with the finder's result *)

\* the grant token the service hands out with a grant id
TokenOf(g) == IF g = "g1" THEN "t1" ELSE "t2"

\* kms.CreateGrantOutput of a successful CreateGrant call
CreateGrantOutput(g) == [GrantId |-> Ptr(g), GrantToken |-> Ptr(TokenOf(g))]

\* variant: grant_id is set from the token
resourceAwsKmsGrantCreateSetId_TokenAsId(out) ==
    [id          |-> Deref(out.GrantId),
     grant_id    |-> Deref(out.GrantToken),
     grant_token |-> Deref(out.GrantToken)]

\* resourceAwsKmsGrantCreate after the retry loop succeeded: SetId and the
\* two computed attributes
resourceAwsKmsGrantCreateSetId(out) ==
    [id          |-> Deref(out.GrantId),
     grant_id    |-> Deref(out.GrantId),
     grant_token |-> Deref(out.GrantToken)]

\* variant: an error of the lookup clears the identifier
resourceAwsKmsGrantReadResult_ErrorClearsId(grant, grantName, err, curId) ==
    IF err # "nil" THEN [ret |-> err, id |-> ""]
    ELSE IF grant = "nil" THEN [ret |-> "nil", id |-> ""]
         ELSE IF grantName = Nil THEN [ret |-> Panic, id |-> curId]
              ELSE [ret |-> "nil", id |-> curId]

\* resourceAwsKmsGrantRead after findKmsGrantByIdWithRetry returned; grantName
\* is the Name of the entry found: *grant.Name panics when it is nil
resourceAwsKmsGrantReadResult(grant, grantName, err, curId) ==
    IF err # "nil" THEN [ret |-> err, id |-> curId]
    ELSE IF grant = "nil" THEN [ret |-> "nil", id |-> ""]
         ELSE IF grantName = Nil THEN [ret |-> Panic, id |-> curId]
              ELSE [ret |-> "nil", id |-> curId]

\* resourceAwsKmsGrantExists after findKmsGrantByIdWithRetry returned
resourceAwsKmsGrantExistsResult(grant, err) ==
    IF err # "nil" THEN [ok |-> TRUE, ret |-> err]
    ELSE IF grant # "nil" THEN [ok |-> TRUE, ret |-> err]
         ELSE [ok |-> FALSE, ret |-> "nil"]

\* resourceAwsKmsGrantDelete after waitForKmsGrantToBeRevoked returned
resourceAwsKmsGrantDeleteResult(err, curId) ==
    IF err # "nil" THEN [ret |-> err, id |-> curId]
    ELSE [ret |-> "nil", id |-> ""]

\* variant: the error of RevokeGrant is kept but the wait still runs
resourceAwsKmsGrantDeleteRevokeFailed_StillPolls(err, curId) ==
    [ret |-> err, id |-> curId, poll |-> TRUE]

\* resourceAwsKmsGrantDelete after RevokeGrant returned an error
resourceAwsKmsGrantDeleteRevokeFailed(err, curId) ==
    [ret |-> err, id |-> curId, poll |-> FALSE]

----------------------------------------------------------------------------
(* State machine *)

Range(f) == {f[i] : i \in DOMAIN f}

MachineInit ==
    /\ validated = FALSE
    /\ isValid = FALSE
    /\ grant_token = ""
    /\ listErr = "nil"
    /\ misses = 0
    /\ visible = {}
    /\ remoteGrants = {}
    /\ issued = {}
    /\ id = ""
    /\ grant_id = ""
    /\ op = "none"
    /\ pc = "idle"
    /\ target = ""
    /\ marker = Nil
    /\ createAttempts = 0
    /\ pageAttempts = 0
    /\ findAttempts = 0
    /\ ret = "none"
    /\ existsRet = FALSE
    /\ revokeCalls = 0
    /\ walk = << >>
    /\ foundOnPage = FALSE
    /\ listed = FALSE
    /\ idBefore = ""
    /\ createdId = ""
    /\ pageErr = "nil"
    /\ callErr = "nil"
    /\ deadline = FALSE
    /\ finderRet = NoReturn
    /\ walkView = "unlisted"

Init ==
    /\ constraints \in LifecycleConstraints
    /\ name \in GrantNames
    /\ home \in [GrantIds -> 1..NPages]
    /\ arg = << >>
    /\ res = << >>
    /\ MachineInit

\* how the listing shows grant g when a lookup for it begins
ViewAtStart(g) == IF g \in visible THEN "listed" ELSE "unlisted"

\* history variables at the start of a handler
StartHandler(tgt) ==
    /\ walkView' = ViewAtStart(tgt)
    /\ walk' = << >>
    /\ foundOnPage' = FALSE
    /\ listed' = (tgt \in visible)
    /\ idBefore' = id
    /\ pageErr' = "nil"
    /\ deadline' = FALSE
    /\ listErr' = "nil"
    /\ misses' = 0
    /\ finderRet' = NoReturn

\* a call of findKmsGrantByIdWithRetry or waitForKmsGrantToBeRevoked begins
StartFinder(tgt) ==
    /\ target' = tgt
    /\ marker' = Nil
    /\ pageAttempts' = 0
    /\ findAttempts' = 0

\* resourceAwsKmsGrantCreate up to the retry loop: the constraint check
Create ==
    /\ pc = "idle"
    /\ id = ""
    /\ op' = "create"
    /\ StartHandler("")
    /\ revokeCalls' = 0
    /\ createdId' = ""
    /\ callErr' = "nil"
    /\ createAttempts' = 0
    /\ IF constraints # {} /\ ~kmsGrantConstraintsIsValid(constraints)
       THEN /\ pc' = "idle"
            /\ ret' = ValidationError
       ELSE /\ pc' = "CreateGrant"
            /\ ret' = "none"
    /\ existsRet' = FALSE
    /\ UNCHANGED <<configVars, remoteVars, dataVars, finderVars>>

\* one attempt of the CreateGrant retry loop, and the rest of
\* resourceAwsKmsGrantCreate once the loop has ended
CreateGrant ==
    /\ pc = "CreateGrant"
    /\ createAttempts' = createAttempts + 1
    /\ \/ \E g \in GrantIds \ issued :
            LET out == CreateGrantOutput(g)
                d   == resourceAwsKmsGrantCreateSetId(out)
            IN
            /\ issued' = issued \cup {g}
            /\ remoteGrants' = remoteGrants \cup {g}
            /\ id' = d.id
            /\ grant_id' = d.grant_id
            /\ grant_token' = d.grant_token
            /\ createdId' = g
            /\ callErr' = "nil"
            /\ deadline' = FALSE
            /\ StartFinder(d.id)
            /\ listed' = (d.id \in visible)
            /\ walkView' = ViewAtStart(d.id)
            /\ pc' = "ListGrants"
            /\ UNCHANGED <<home, visible, ret>>
       \/ \E e \in ApiErrors :
          LET c == CreateGrantClosure(e) IN
          \E expired \in (IF c.retry
                           THEN DeadlinePassed(createAttempts) ELSE {TRUE}) :
            /\ callErr' = e
            /\ deadline' = (c.retry /\ expired)
            /\ IF c.retry /\ ~expired
               THEN UNCHANGED <<pc, ret>>
               ELSE /\ pc' = "idle"
                    /\ ret' = c.err
            /\ UNCHANGED <<remoteVars, dataVars, finderVars, createdId, listed,
                           walkView>>
    /\ UNCHANGED <<configVars, op, existsRet, revokeCalls, walk, foundOnPage,
                   idBefore, pageErr, listErr, misses, finderRet>>

\* resourceAwsKmsGrantRead up to the first ListGrants call
Read ==
    /\ pc = "idle"
    /\ op' = "read"
    /\ StartHandler(id)
    /\ revokeCalls' = 0
    /\ createdId' = ""
    /\ callErr' = "nil"
    /\ StartFinder(id)
    /\ pc' = "ListGrants"
    /\ ret' = "none"
    /\ createAttempts' = 0
    /\ existsRet' = FALSE
    /\ UNCHANGED <<configVars, remoteVars, dataVars>>

\* resourceAwsKmsGrantExists up to the first ListGrants call
Exists ==
    /\ pc = "idle"
    /\ op' = "exists"
    /\ StartHandler(id)
    /\ revokeCalls' = 0
    /\ createdId' = ""
    /\ callErr' = "nil"
    /\ StartFinder(id)
    /\ pc' = "ListGrants"
    /\ ret' = "none"
    /\ createAttempts' = 0
    /\ existsRet' = FALSE
    /\ UNCHANGED <<configVars, remoteVars, dataVars>>

\* resourceAwsKmsGrantDelete through the RevokeGrant call
Delete ==
    /\ pc = "idle"
    /\ id # ""
    /\ op' = "delete"
    /\ StartHandler(grant_id)
    /\ revokeCalls' = 1
    /\ createdId' = ""
    /\ StartFinder(grant_id)
    /\ \/ /\ grant_id \in remoteGrants
          /\ remoteGrants' = remoteGrants \ {grant_id}
          /\ pc' = "ListGrants"
          /\ ret' = "none"
          /\ callErr' = "nil"
          /\ UNCHANGED id
       \/ \E e \in ApiErrors :
            LET r == resourceAwsKmsGrantDeleteRevokeFailed(e, id)
            IN  /\ callErr' = e
                /\ ret' = r.ret
                /\ id' = r.id
                /\ pc' = IF r.poll THEN "ListGrants" ELSE "idle"
                /\ UNCHANGED remoteGrants
    /\ createAttempts' = 0
    /\ existsRet' = FALSE
    /\ UNCHANGED <<configVars, home, visible, issued, grant_id, grant_token>>

\* the handler returns: its error, the identifier it leaves, and for
\* resourceAwsKmsGrantExists its boolean
HandlerReturns(r, newId, ok) ==
    /\ pc' = IF r = Panic THEN "crashed" ELSE "idle"
    /\ ret' = r
    /\ id' = newId
    /\ existsRet' = ok
    /\ marker' = Nil
    /\ pageAttempts' = 0

\* the caller's retry loop makes another lookup: findKmsGrantById is called
\* with a nil marker
NextLookup ==
    /\ marker' = Nil
    /\ pageAttempts' = 0
    /\ walk' = << >>
    /\ walkView' = ViewAtStart(target)
    /\ UNCHANGED <<pc, ret, id, existsRet>>

\* the retry loop of findKmsGrantByIdWithRetry or waitForKmsGrantToBeRevoked
\* has ended with err, grant being the last lookup's result
LookupsEnd(grant, err) ==
    CASE op = "delete" ->
            LET r == resourceAwsKmsGrantDeleteResult(err, id)
            IN  HandlerReturns(r.ret, r.id, existsRet)
      [] op = "exists" ->
            LET r == resourceAwsKmsGrantExistsResult(grant, err)
            IN  HandlerReturns(r.ret, id, r.ok)
      [] OTHER ->
            \* the grant looked up is the one this resource created, with
            \* the configured name
            LET r == resourceAwsKmsGrantReadResult(grant, name, err, id)
            IN  HandlerReturns(r.ret, r.id, existsRet)

\* findKmsGrantById returned (grant, err) to the closure of the caller's
\* retry loop
FinderReturns(grant, err, expired) ==
    LET c == IF op = "delete"
             THEN waitForKmsGrantToBeRevokedStep(grant, err)
             ELSE findKmsGrantByIdWithRetryStep(grant, err)
    IN  /\ findAttempts' = findAttempts + 1
        /\ deadline' = (c.class = "retry" /\ expired)
        /\ IF c.class = "retry" /\ ~expired
           THEN NextLookup
           ELSE /\ LookupsEnd(grant, c.err)
                /\ UNCHANGED <<walk, walkView>>

\* one ListGrants call of the page-fetch retry loop in findKmsGrantById, and
\* once that loop has ended the rest of findKmsGrantById and of its callers;
\* lookups is the number of lookups the caller's deadline leaves time for
ListGrantsWithin(lookups) ==
    /\ pc = "ListGrants"
    /\ \E e \in ApiErrors \cup {"nil"} :
       \E expiredPage \in (IF e # "nil" /\ ListGrantsRetryable(e)
                            THEN DeadlinePassed(pageAttempts) ELSE {TRUE}),
          expiredFind \in (IF e = "nil"
                            THEN DeadlineAfter(findAttempts, lookups)
                            ELSE {TRUE}) :
         IF e # "nil" /\ ListGrantsRetryable(e) /\ ~expiredPage
         THEN /\ pageAttempts' = pageAttempts + 1
              /\ listErr' = e
              /\ UNCHANGED <<pc, ret, id, existsRet, marker, findAttempts,
                             walk, foundOnPage, pageErr, deadline, misses,
                             finderRet, walkView>>
         ELSE LET out  == IF e = "nil" THEN ListGrantsResponse(marker)
                          ELSE EmptyListGrantsResponse
                  w    == IF e = "nil" THEN Append(walk, marker) ELSE walk
                  step == findKmsGrantByIdPage(out, target)
              IN  /\ pageErr' = e
                  /\ listErr' = e
                  /\ misses' = IF step.kind = "return"
                                  /\ step.err = KmsGrantMissingError
                               THEN misses + 1 ELSE misses
                  /\ foundOnPage' = (foundOnPage \/ target \in Range(out.Grants))
                  /\ CASE step.kind = "recurse" ->
                            /\ marker' = step.marker
                            /\ pageAttempts' = 0
                            /\ walk' = w
                            /\ UNCHANGED <<pc, ret, id, existsRet, findAttempts,
                                           deadline, finderRet, walkView>>
                       [] step.kind = "panic" ->
                            /\ pc' = "crashed"
                            /\ ret' = Panic
                            /\ deadline' = (e # "nil" /\ ListGrantsRetryable(e))
                            /\ finderRet' = [grant |-> "nil", err |-> Panic,
                                             walk |-> w]
                            /\ UNCHANGED <<id, existsRet, marker, pageAttempts,
                                           findAttempts, walk, walkView>>
                       [] OTHER ->
                            /\ finderRet' = [grant |-> step.grant,
                                             err |-> step.err, walk |-> w]
                            /\ FinderReturns(step.grant, step.err, expiredFind)
    /\ UNCHANGED <<configVars, remoteVars, grant_id, grant_token, op, target,
                   createAttempts, revokeCalls, listed, idBefore, createdId,
                   callErr>>

ListGrants == ListGrantsWithin(MaxAttempts)

\* the remote listing catches up with a created or revoked grant
Propagate ==
    /\ pc # "crashed"
    /\ \E g \in GrantIds :
         /\ (g \in remoteGrants) # (g \in visible)
         /\ visible' = IF g \in remoteGrants THEN visible \cup {g}
                       ELSE visible \ {g}
         /\ listed' = (listed \/ (pc # "idle" /\ g = target /\ g \in remoteGrants))
         /\ walkView' = IF g = target THEN "unlisted" ELSE walkView
    /\ UNCHANGED <<configVars, home, remoteGrants, issued, dataVars, op, pc,
                   finderVars, createAttempts, ret, existsRet, revokeCalls, walk,
                   foundOnPage, idBefore, createdId, pageErr, callErr,
                   deadline, listErr, misses, finderRet>>

\* another principal creates a grant on the same key
ExternalCreate ==
    /\ pc # "crashed"
    /\ \E g \in GrantIds \ issued :
         /\ issued' = issued \cup {g}
         /\ remoteGrants' = remoteGrants \cup {g}
    /\ UNCHANGED <<configVars, home, visible, dataVars, op, pc, finderVars,
                   createAttempts, ret, existsRet, histVars>>

\* another principal revokes or retires a grant of the key
ExternalRevoke ==
    /\ pc # "crashed"
    /\ \E g \in remoteGrants :
         remoteGrants' = remoteGrants \ {g}
    /\ UNCHANGED <<configVars, home, visible, issued, dataVars, op, pc,
                   finderVars, createAttempts, ret, existsRet, histVars>>

Next ==
    \/ Create
    \/ CreateGrant
    \/ Read
    \/ Exists
    \/ Delete
    \/ ListGrants
    \/ Propagate
    \/ ExternalCreate
    \/ ExternalRevoke

Spec == Init /\ [][Next]_vars

----------------------------------------------------------------------------
(* Create on its own, with the program running: resource.Retry keeps calling
   its closure until the closure stops asking for a retry or the deadline
   passes, so an enabled attempt is eventually made *)

NextCreate ==
    \/ Create
    \/ CreateGrant
    \/ ListGrants
    \/ Propagate

SpecCreate ==
    /\ Init
    /\ [][NextCreate]_vars
    /\ WF_vars(CreateGrant)
    /\ WF_vars(ListGrants)

----------------------------------------------------------------------------
(* The lifecycle over a listing whose pages are not fixed.  ListGrants hands
   out an opaque marker and promises no snapshot of the listing across the
   calls of one walk: when a revoked grant leaves the listing, a grant of a
   later page may take the place it leaves.  The caller's deadline leaves
   time for MaxLookups lookups. *)

\* a revoked grant leaves the listing and a listed grant of a later page
\* takes its place
Repaginate ==
    /\ pc # "crashed"
    /\ \E g \in visible \ remoteGrants :
       \E h \in visible \ {g} :
         /\ home[g] < home[h]
         /\ visible' = visible \ {g}
         /\ home' = [home EXCEPT ![h] = home[g]]
         /\ walkView' = CASE g = target -> "unlisted"
                           [] h = target /\ walkView = "listed" -> "moved"
                           [] OTHER -> walkView
    /\ UNCHANGED <<configVars, remoteGrants, issued, dataVars, op, pc,
                   finderVars, createAttempts, ret, existsRet, revokeCalls,
                   walk, foundOnPage, listed, idBefore, createdId, pageErr,
                   callErr, deadline, listErr, misses, finderRet>>

ListGrantsOften == ListGrantsWithin(MaxLookups)

InitListing ==
    /\ constraints = {}
    /\ name = Ptr("n")
    /\ home \in [GrantIds -> 1..NPages]
    /\ arg = << >>
    /\ res = << >>
    /\ MachineInit

NextListing ==
    \/ Create
    \/ CreateGrant
    \/ Read
    \/ Exists
    \/ Delete
    \/ ListGrantsOften
    \/ Propagate
    \/ Repaginate
    \/ ExternalCreate
    \/ ExternalRevoke

SpecListing == InitListing /\ [][NextListing]_vars

----------------------------------------------------------------------------
(* The validator as a function of the configured set *)

RECURSIVE SetsUpTo(_, _)
SetsUpTo(E, n) ==
    IF n = 0 THEN {{}}
    ELSE LET P == SetsUpTo(E, n - 1)
         IN  P \cup {s \cup {e} : s \in P, e \in E}

InitConstraints ==
    /\ constraints \in SetsUpTo(ConfigElems, MaxElems)
    /\ name = Nil
    /\ home = [g \in GrantIds |-> 1]
    /\ arg = << >>
    /\ res = << >>
    /\ MachineInit

\* the call kmsGrantConstraintsIsValid(v.(*schema.Set)) of Create
Validate ==
    /\ ~validated
    /\ validated' = TRUE
    /\ isValid' = kmsGrantConstraintsIsValid(constraints)
    /\ UNCHANGED <<constraints, name, arg, res, remoteVars, dataVars, op, pc,
                   finderVars,
                   createAttempts, ret, existsRet, histVars>>

NextConstraints == Validate

SpecConstraints == InitConstraints /\ [][NextConstraints]_vars

----------------------------------------------------------------------------
(* The constraint fingerprint: resourceKmsGrantConstraintsHash *)

\* a Go string is the sequence of its characters; Byte is a character's byte
Byte(c) ==
    CASE c = "-" -> 45  [] c = "1" -> 49  [] c = "2" -> 50  [] c = "_" -> 95
      [] c = "a" -> 97  [] c = "b" -> 98  [] c = "c" -> 99  [] c = "e" -> 101
      [] c = "i" -> 105 [] c = "l" -> 108 [] c = "n" -> 110 [] c = "o" -> 111
      [] c = "p" -> 112 [] c = "q" -> 113 [] c = "r" -> 114 [] c = "s" -> 115
      [] c = "t" -> 116 [] c = "u" -> 117 [] c = "w" -> 119 [] c = "x" -> 120
      [] c = "y" -> 121 [] c = ":" -> 58  [] c = "A" -> 65

\* the Go string of a key or value of the model: its characters
Str(s) ==
    CASE s = "a-b" -> <<"a", "-", "b">>
      [] s = "b-c" -> <<"b", "-", "c">>
      [] OTHER     -> <<s>>

Dash == <<"-">>

KindName(k) ==
    <<"e", "n", "c", "r", "y", "p", "t", "i", "o", "n", "_",
      "c", "o", "n", "t", "e", "x", "t", "_">>
    \o (IF k = "encryption_context_equals"
        THEN <<"e", "q", "u", "a", "l", "s">>
        ELSE <<"s", "u", "b", "s", "e", "t">>)

\* hashcode.String: the IEEE CRC-32 of the bytes.  A 32-bit word is the
\* sequence of its bits, lowest first.
CrcPoly ==
    <<0, 0, 0, 0, 0, 1, 0, 0, 1, 1, 0, 0, 0, 0, 0, 1,
      0, 0, 0, 1, 1, 1, 0, 1, 1, 0, 1, 1, 0, 1, 1, 1>>

ByteBits(n) == [i \in 1..8 |-> (n \div (2 ^ (i - 1))) % 2]

Xor32(a, b) == [i \in 1..32 |-> (a[i] + b[i]) % 2]

RECURSIVE CrcShift(_, _)
CrcShift(crc, n) ==
    IF n = 0 THEN crc
    ELSE LET s == Tail(crc) \o <<0>>
         IN  CrcShift(IF crc[1] = 1 THEN Xor32(s, CrcPoly) ELSE s, n - 1)

\* the register after one more byte
CrcByte(crc, c) ==
    LET b == ByteBits(Byte(c))
        x == [i \in 1..32 |-> IF i <= 8 THEN (crc[i] + b[i]) % 2 ELSE crc[i]]
    IN  CrcShift(x, 8)

\* the register after the bytes of str, first to last: the first half of
\* the string, then the second.  The test of the register's width makes the
\* register of the first half a value before the second half starts.
RECURSIVE CrcUpdate(_, _)
CrcUpdate(crc, str) ==
    IF Len(crc) # 32 \/ str = << >> THEN crc
    ELSE IF Len(str) = 1 THEN CrcByte(crc, str[1])
    ELSE LET h == Len(str) \div 2
         IN  CrcUpdate(CrcUpdate(crc, SubSeq(str, 1, h)),
                       SubSeq(str, h + 1, Len(str)))

hashcodeString(str) ==
    LET c == CrcUpdate([i \in 1..32 |-> 1], str)
    IN  [i \in 1..32 |-> 1 - c[i]]

\* stringMapToPointers and pointersMapToStringList: the values of a map
\* become pointers to strings, and strings again
stringMapToPointers(m) == [k \in DOMAIN m |-> Ptr(m[k])]
pointersMapToStringList(m) == [k \in DOMAIN m |-> Deref(m[k])]

\* sort.Strings: byte-wise lexicographic order
RECURSIVE StrLess(_, _)
StrLess(a, b) ==
    IF b = << >> THEN FALSE
    ELSE IF a = << >> THEN TRUE
    ELSE IF Byte(Head(a)) # Byte(Head(b)) THEN Byte(Head(a)) < Byte(Head(b))
    ELSE StrLess(Tail(a), Tail(b))

RECURSIVE InsertSorted(_, _)
InsertSorted(k, sorted) ==
    IF sorted = << >> THEN <<k>>
    ELSE IF StrLess(Str(k), Str(Head(sorted))) THEN <<k>> \o sorted
    ELSE <<Head(sorted)>> \o InsertSorted(k, Tail(sorted))

RECURSIVE SortStrings(_)
SortStrings(keys) ==
    IF keys = << >> THEN << >>
    ELSE InsertSorted(Head(keys), SortStrings(Tail(keys)))

\* variant: the keys are returned in the order the map yields them
sortStringMapKeys_Unsorted(m, iter) == iter

\* iter is the order in which "for k := range m" yields the keys of m
sortStringMapKeys(m, iter) == SortStrings(iter)

RECURSIVE stringsJoin(_, _)
stringsJoin(list, sep) ==
    IF list = << >> THEN << >>
    ELSE IF Len(list) = 1 THEN list[1]
    ELSE list[1] \o sep \o stringsJoin(Tail(list), sep)

\* the strList of sortedConcatStringMap: key, value, key, value, ..
RECURSIVE KeyValueList(_, _)
KeyValueList(m, mapKeys) ==
    IF mapKeys = << >> THEN << >>
    ELSE <<Str(Head(mapKeys)), Str(Deref(m[Head(mapKeys)]))>>
         \o KeyValueList(m, Tail(mapKeys))

sortedConcatStringMap(m, sep, iter) ==
    stringsJoin(KeyValueList(m, sortStringMapKeys(m, iter)), sep)

\* variant: a mapping is written whenever its kind is present
resourceKmsGrantConstraintsHash_NoLenTest(v, iter) ==
    LET part(k) ==
            IF k \in DOMAIN v
            THEN KindName(k) \o Dash
                 \o sortedConcatStringMap(stringMapToPointers(v[k]), Dash,
                                          iter[k])
                 \o Dash
            ELSE << >>
    IN  hashcodeString(part("encryption_context_equals")
                       \o part("encryption_context_subset"))

\* v is an element of the constraints set; iter[k] is the order in which the
\* map of kind k yields its keys; the result is buf.String()
resourceKmsGrantConstraintsHashBuf(v, iter) ==
    LET part(k) ==
            IF k \in DOMAIN v /\ MapLen(v[k]) > 0
            THEN KindName(k) \o Dash
                 \o sortedConcatStringMap(stringMapToPointers(v[k]), Dash,
                                          iter[k])
                 \o Dash
            ELSE << >>
    IN  part("encryption_context_equals") \o part("encryption_context_subset")

resourceKmsGrantConstraintsHash(v, iter) ==
    hashcodeString(resourceKmsGrantConstraintsHashBuf(v, iter))

\* kms.GrantConstraints: a field is nil or a map
NoGrantConstraints ==
    [EncryptionContextEquals |-> Nil, EncryptionContextSubset |-> Nil]

\* variant: a field keeps the mapping of the first element that sets it
expandKmsGrantConstraintsLoop_FirstWins(constraint, configured) ==
    LET first(k) ==
            LET with == SelectSeq(configured, LAMBDA data : k \in DOMAIN data)
            IN  IF with = << >> THEN Nil
                ELSE Ptr(stringMapToPointers(Head(with)[k]))
    IN  [EncryptionContextEquals |-> first("encryption_context_equals"),
         EncryptionContextSubset |-> first("encryption_context_subset")]

\* configured is configured.List(); a later element overwrites the fields an
\* earlier one set
RECURSIVE expandKmsGrantConstraintsLoop(_, _)
expandKmsGrantConstraintsLoop(constraint, configured) ==
    IF configured = << >> THEN constraint
    ELSE LET data == Head(configured)
             eq   == IF "encryption_context_equals" \in DOMAIN data
                     THEN Ptr(stringMapToPointers(
                                 data["encryption_context_equals"]))
                     ELSE constraint.EncryptionContextEquals
             sub  == IF "encryption_context_subset" \in DOMAIN data
                     THEN Ptr(stringMapToPointers(
                                 data["encryption_context_subset"]))
                     ELSE constraint.EncryptionContextSubset
         IN  expandKmsGrantConstraintsLoop(
                 [EncryptionContextEquals |-> eq,
                  EncryptionContextSubset |-> sub], Tail(configured))

expandKmsGrantConstraints(configured) ==
    IF Len(configured) < 1 THEN Nil
    ELSE Ptr(expandKmsGrantConstraintsLoop(NoGrantConstraints, configured))

\* the set flattenKmsGrantConstraints builds: empty for a nil constraint,
\* else one element that carries the non-empty mappings only
flattenKmsGrantConstraints(constraint) ==
    IF constraint = Nil THEN {}
    ELSE LET c   == Deref(constraint)
             f   == [k \in Kinds |->
                       IF k = "encryption_context_equals"
                       THEN c.EncryptionContextEquals
                       ELSE c.EncryptionContextSubset]
             dom == {k \in Kinds : f[k] # Nil /\ MapLen(Deref(f[k])) > 0}
         IN  {[k \in dom |-> pointersMapToStringList(Deref(f[k]))]}

\* what ListGrants reports for the constraints that CreateGrant was sent: a
\* non-empty mapping as sent, an empty or unset one as nil or as empty
GrantConstraintsEcho(sent) ==
    IF sent = Nil THEN {Nil}
    ELSE LET c == Deref(sent)
             echo(f) == IF f = Nil \/ MapLen(Deref(f)) = 0
                        THEN {Nil, Ptr(EmptyMap)} ELSE {f}
         IN  {Ptr([EncryptionContextEquals |-> e,
                   EncryptionContextSubset |-> u]) :
                 e \in echo(c.EncryptionContextEquals),
                 u \in echo(c.EncryptionContextSubset)}

\* the orders in which a Go map with key set S can yield its keys
Orders(S) == {q \in [1..Cardinality(S) -> S] : Range(q) = S}

IterOrders(v) ==
    {[k \in Kinds |-> IF k = "encryption_context_equals" THEN a ELSE b] :
        a \in Orders(DOMAIN v["encryption_context_equals"]),
        b \in Orders(DOMAIN v["encryption_context_subset"])}

\* a configured element, two orders in which its maps may be iterated, and
\* the constraints the service reports for it
InitHash ==
    /\ \E v \in ConfigElems :
       \E ia \in IterOrders(v), ib \in IterOrders(v),
          rc \in GrantConstraintsEcho(expandKmsGrantConstraints(<<v>>)) :
            arg = [elem |-> v, iterA |-> ia, iterB |-> ib, remote |-> rc]
    /\ res = << >>
    /\ constraints = {}
    /\ name = Nil
    /\ home = [g \in GrantIds |-> 1]
    /\ MachineInit

\* the element is hashed twice, and so is the element that
\* flattenKmsGrantConstraints builds from the reported constraints
HashElement ==
    /\ res = << >>
    /\ LET flat == flattenKmsGrantConstraints(arg.remote)
       IN  res' = [hashA    |-> resourceKmsGrantConstraintsHash(arg.elem,
                                                                arg.iterA),
                   hashB    |-> resourceKmsGrantConstraintsHash(arg.elem,
                                                                arg.iterB),
                   flat     |-> flat,
                   hashFlat |-> {resourceKmsGrantConstraintsHash(m, arg.iterB)
                                    : m \in flat}]
    /\ UNCHANGED <<constraints, name, validated, isValid, arg, remoteVars, dataVars,
                   op, pc, finderVars, createAttempts, ret, existsRet,
                   histVars>>

NextHash == HashElement

SpecHash == InitHash /\ [][NextHash]_vars

----------------------------------------------------------------------------
(* The string resourceKmsGrantConstraintsHash serializes, for encryption
   contexts whose keys and values may contain the separator *)

SerialKeys == {"a", "a-b"}
SerialVals == {"c", "b-c"}
SerialMaps == UNION {[S -> SerialVals] : S \in SUBSET SerialKeys}
SerialElems == [Kinds -> SerialMaps]

InitSerialize ==
    /\ \E a \in SerialElems, b \in SerialElems :
       \E ia \in IterOrders(a), ib \in IterOrders(b) :
            arg = [a |-> a, b |-> b, iterA |-> ia, iterB |-> ib]
    /\ res = << >>
    /\ constraints = {}
    /\ name = Nil
    /\ home = [g \in GrantIds |-> 1]
    /\ MachineInit

Serialize ==
    /\ res = << >>
    /\ res' = [bufA  |-> resourceKmsGrantConstraintsHashBuf(arg.a, arg.iterA),
               bufB  |-> resourceKmsGrantConstraintsHashBuf(arg.b, arg.iterB)]
    /\ UNCHANGED <<constraints, name, validated, isValid, arg, remoteVars, dataVars,
                   op, pc, finderVars, createAttempts, ret, existsRet,
                   histVars>>

NextSerialize == Serialize

SpecSerialize == InitSerialize /\ [][NextSerialize]_vars

----------------------------------------------------------------------------
(* The constraints of the CreateGrant request: expandKmsGrantConstraints *)

ExpandMaps == {EmptyMap, X1, Y2}
ExpandElems == [Kinds -> ExpandMaps]

\* the lines of resourceAwsKmsGrantCreate that fill input.Constraints, for a
\* set that passed the validity check; d.GetOk is false for an empty set.
\* list is configured.List(): the elements of the set in an order the
\* caller does not choose, so every order of the set is drawn
CreateGrantInputConstraints(set, list) ==
    IF set = {} THEN Nil ELSE expandKmsGrantConstraints(list)

InitExpand ==
    /\ \E set \in SetsUpTo(ExpandElems, MaxElems) :
       \E list \in Orders(set) :
            arg = [set |-> set, list |-> list]
    /\ res = << >>
    /\ constraints = {}
    /\ name = Nil
    /\ home = [g \in GrantIds |-> 1]
    /\ MachineInit

Expand ==
    /\ res = << >>
    /\ res' = [valid       |-> kmsGrantConstraintsIsValid(arg.set),
               Constraints |-> CreateGrantInputConstraints(arg.set, arg.list)]
    /\ UNCHANGED <<constraints, name, validated, isValid, arg, remoteVars, dataVars,
                   op, pc, finderVars, createAttempts, ret, existsRet,
                   histVars>>

NextExpand == Expand

SpecExpand == InitExpand /\ [][NextExpand]_vars

----------------------------------------------------------------------------
(* What resourceAwsKmsGrantRead writes to the state for a grant it found *)

ArnPrefix == <<"a", "r", "n", ":", "a", "w", "s">>

\* strings.HasPrefix
HasPrefix(str, prefix) ==
    /\ Len(str) >= Len(prefix)
    /\ SubSeq(str, 1, Len(prefix)) = prefix

\* principals as the configuration names them and as ListGrants may report
\* them: ARNs, a unique id, and strings that only resemble an ARN
LocalPrincipals == {ArnPrefix \o <<":", "x">>, ArnPrefix \o <<":", "y">>}

RemotePrincipals ==
    LocalPrincipals
    \cup {<<"A", "x">>, <<"a", "r", "n">>, <<"a", "r", "n", ":", "a", "w", "x">>,
          << >>}

OperationLists == {<<"Encrypt">>, <<"Encrypt", "Decrypt">>}

\* the attributes of the resource data that Read may write
LocalStates ==
    [grantee_principal  : LocalPrincipals,
     retiring_principal : LocalPrincipals \cup {<< >>},
     operations         : {<<"Encrypt">>},
     name               : {<< >>},
     constraints        : {{}}]

\* kms.GrantListEntry: every field is a pointer, and ListGrants always
\* reports the grantee
GrantListEntries ==
    [GranteePrincipal  : {Ptr(q) : q \in RemotePrincipals},
     RetiringPrincipal : {Nil} \cup {Ptr(q) : q \in RemotePrincipals},
     Operations        : OperationLists,
     Name              : {Nil, Ptr(<< >>), Ptr(<<"n">>)},
     Constraints       : {Nil, Ptr([EncryptionContextEquals |->
                                       Ptr(stringMapToPointers(X1)),
                                    EncryptionContextSubset |-> Nil])}]

\* variant: the grantee is written whatever the reported value looks like
resourceAwsKmsGrantReadSetState_AlwaysSetsGrantee(d, grant) ==
    LET d1 == [d EXCEPT !.grantee_principal = Deref(grant.GranteePrincipal)]
        d2 == IF grant.RetiringPrincipal # Nil
                 /\ HasPrefix(Deref(grant.RetiringPrincipal), ArnPrefix)
              THEN [d1 EXCEPT !.retiring_principal =
                                  Deref(grant.RetiringPrincipal)]
              ELSE d1
        d3 == [d2 EXCEPT !.operations = grant.Operations]
    IN  IF grant.Name = Nil THEN [d |-> d3, panic |-> TRUE]
        ELSE LET d4 == IF Deref(grant.Name) # << >>
                       THEN [d3 EXCEPT !.name = Deref(grant.Name)] ELSE d3
                 d5 == IF grant.Constraints # Nil
                       THEN [d4 EXCEPT !.constraints =
                               flattenKmsGrantConstraints(grant.Constraints)]
                       ELSE d4
             IN  [d |-> d5, panic |-> FALSE]

\* the branch "grant != nil" of resourceAwsKmsGrantRead: the resource data
\* it leaves; dereferencing a nil Name panics after the principals and the
\* operations were written
resourceAwsKmsGrantReadSetState(d, grant) ==
    LET d1 == IF HasPrefix(Deref(grant.GranteePrincipal), ArnPrefix)
              THEN [d EXCEPT !.grantee_principal =
                                 Deref(grant.GranteePrincipal)]
              ELSE d
        d2 == IF grant.RetiringPrincipal # Nil
                 /\ HasPrefix(Deref(grant.RetiringPrincipal), ArnPrefix)
              THEN [d1 EXCEPT !.retiring_principal =
                                  Deref(grant.RetiringPrincipal)]
              ELSE d1
        d3 == [d2 EXCEPT !.operations = grant.Operations]
    IN  IF grant.Name = Nil THEN [d |-> d3, panic |-> TRUE]
        ELSE LET d4 == IF Deref(grant.Name) # << >>
                       THEN [d3 EXCEPT !.name = Deref(grant.Name)] ELSE d3
                 d5 == IF grant.Constraints # Nil
                       THEN [d4 EXCEPT !.constraints =
                               flattenKmsGrantConstraints(grant.Constraints)]
                       ELSE d4
             IN  [d |-> d5, panic |-> FALSE]

InitReadState ==
    /\ \E d \in LocalStates, grant \in GrantListEntries :
            arg = [d |-> d, grant |-> grant]
    /\ res = << >>
    /\ constraints = {}
    /\ name = Nil
    /\ home = [g \in GrantIds |-> 1]
    /\ MachineInit

ReadSetState ==
    /\ res = << >>
    /\ res' = resourceAwsKmsGrantReadSetState(arg.d, arg.grant)
    /\ UNCHANGED <<constraints, name, validated, isValid, arg, remoteVars, dataVars,
                   op, pc, finderVars, createAttempts, ret, existsRet,
                   histVars>>

NextReadState == ReadSetState

SpecReadState == InitReadState /\ [][NextReadState]_vars

----------------------------------------------------------------------------
(* The SES receipt rule resource (src/unnamed/part_002): import *)

IdChars == {"a", "b", ":"}

RECURSIVE StringsUpTo(_)
StringsUpTo(n) ==
    IF n = 0 THEN {<< >>}
    ELSE LET P == StringsUpTo(n - 1)
         IN  P \cup {Append(s, c) : s \in P, c \in IdChars}

\* strings.Split(s, ":")
RECURSIVE stringsSplit(_)
stringsSplit(s) ==
    LET at == {i \in 1..Len(s) : s[i] = ":"}
    IN  IF at = {} THEN <<s>>
        ELSE LET i == CHOOSE i \in at : \A j \in at : i <= j
             IN  <<SubSeq(s, 1, i - 1)>>
                 \o stringsSplit(SubSeq(s, i + 1, Len(s)))

\* variant: an id with an empty part is accepted
resourceReceiptRuleImport_EmptyPartAccepted(d) ==
    LET idParts == stringsSplit(d.id)
    IN  IF Len(idParts) # 2
        THEN [d |-> d, err |-> TRUE]
        ELSE [d   |-> [d EXCEPT !.rule_set_name = idParts[1],
                                !.name = idParts[2],
                                !.id = idParts[2]],
              err |-> FALSE]

\* variant: an id of more than two parts is accepted
resourceReceiptRuleImport_MoreParts(d) ==
    LET idParts == stringsSplit(d.id)
    IN  IF Len(idParts) < 2 \/ idParts[1] = << >> \/ idParts[2] = << >>
        THEN [d |-> d, err |-> TRUE]
        ELSE [d   |-> [d EXCEPT !.rule_set_name = idParts[1],
                                !.name = idParts[2],
                                !.id = idParts[2]],
              err |-> FALSE]

\* d is the resource data: the identifier and the two attributes the
\* importer writes
resourceReceiptRuleImport(d) ==
    LET idParts == stringsSplit(d.id)
    IN  IF Len(idParts) # 2 \/ idParts[1] = << >> \/ idParts[2] = << >>
        THEN [d |-> d, err |-> TRUE]
        ELSE [d   |-> [d EXCEPT !.rule_set_name = idParts[1],
                                !.name = idParts[2],
                                !.id = idParts[2]],
              err |-> FALSE]

\* the resource data the importer is called with holds the given id only
InitImport ==
    /\ \E s \in StringsUpTo(MaxIdLen) :
            arg = [id |-> s, rule_set_name |-> << >>, name |-> << >>]
    /\ res = << >>
    /\ constraints = {}
    /\ name = Nil
    /\ home = [g \in GrantIds |-> 1]
    /\ MachineInit

Import ==
    /\ res = << >>
    /\ res' = resourceReceiptRuleImport(arg)
    /\ UNCHANGED <<constraints, name, validated, isValid, arg, remoteVars, dataVars,
                   op, pc, finderVars, createAttempts, ret, existsRet,
                   histVars>>

NextImport == Import

SpecImport == InitImport /\ [][NextImport]_vars

----------------------------------------------------------------------------
(* The SES receipt rule resource (src/unnamed/part_002): read *)

RuleDoesNotExist    == "RuleDoesNotExistException"
RuleSetDoesNotExist == "RuleSetDoesNotExistException"
OtherDescribeError  == "InternalFailure"
NotFoundError       == "retry.NotFoundError"
EmptyResultError    == "tfresource.EmptyResultError"

\* awstypes.ReceiptRule, as far as the read copies it to the state
ReceiptRules == [Enabled : BOOLEAN, ScanEnabled : BOOLEAN]

\* what conn.DescribeReceiptRule answers: an error, no output, an output
\* without a rule, or an output with a rule
DescribeReceiptRuleOutcomes ==
    {[err |-> e, output |-> Nil] :
        e \in {RuleDoesNotExist, RuleSetDoesNotExist, OtherDescribeError}}
    \cup {[err |-> "nil", output |-> Nil]}
    \cup {[err |-> "nil", output |-> Ptr([Rule |-> Nil])]}
    \cup {[err |-> "nil", output |-> Ptr([Rule |-> Ptr(r)])] :
            r \in ReceiptRules}

FindReceiptRuleByTwoPartKey(described) ==
    IF described.err \in {RuleDoesNotExist, RuleSetDoesNotExist}
    THEN [rule |-> Nil, err |-> NotFoundError]
    ELSE IF described.err # "nil"
    THEN [rule |-> Nil, err |-> described.err]
    ELSE IF described.output = Nil \/ Deref(described.output).Rule = Nil
    THEN [rule |-> Nil, err |-> EmptyResultError]
    ELSE [rule |-> Deref(described.output).Rule, err |-> "nil"]

\* tfresource.NotFound: the error is, or converts to, a retry.NotFoundError
tfresourceNotFound(err) == err \in {NotFoundError, EmptyResultError}

\* variant: a missing rule clears the identifier of a new resource too
resourceReceiptRuleRead_NewIgnored(d, isNewResource, described) ==
    LET found == FindReceiptRuleByTwoPartKey(described)
    IN  IF tfresourceNotFound(found.err)
        THEN [d |-> [d EXCEPT !.id = ""], err |-> "nil"]
        ELSE IF found.err # "nil"
        THEN [d |-> d, err |-> found.err]
        ELSE [d   |-> [d EXCEPT !.enabled = Deref(found.rule).Enabled,
                                !.scan_enabled = Deref(found.rule).ScanEnabled],
              err |-> "nil"]

\* d is the resource data, isNewResource is d.IsNewResource(), described is
\* the answer of the service; the result is the resource data and the error
\* of the returned diagnostics
resourceReceiptRuleRead(d, isNewResource, described) ==
    LET found == FindReceiptRuleByTwoPartKey(described)
    IN  IF ~isNewResource /\ tfresourceNotFound(found.err)
        THEN [d |-> [d EXCEPT !.id = ""], err |-> "nil"]
        ELSE IF found.err # "nil"
        THEN [d |-> d, err |-> found.err]
        ELSE [d   |-> [d EXCEPT !.enabled = Deref(found.rule).Enabled,
                                !.scan_enabled = Deref(found.rule).ScanEnabled],
              err |-> "nil"]

InitReceiptRuleRead ==
    /\ \E n \in {"r1", "r2"}, e \in BOOLEAN, s \in BOOLEAN, new \in BOOLEAN,
          o \in DescribeReceiptRuleOutcomes :
            arg = [d |-> [id |-> n, rule_set_name |-> "s1",
                          enabled |-> e, scan_enabled |-> s],
                   isNewResource |-> new,
                   described |-> o]
    /\ res = << >>
    /\ constraints = {}
    /\ name = Nil
    /\ home = [g \in GrantIds |-> 1]
    /\ MachineInit

ReceiptRuleRead ==
    /\ res = << >>
    /\ res' = resourceReceiptRuleRead(arg.d, arg.isNewResource, arg.described)
    /\ UNCHANGED <<constraints, name, validated, isValid, arg, remoteVars, dataVars,
                   op, pc, finderVars, createAttempts, ret, existsRet,
                   histVars>>

NextReceiptRuleRead == ReceiptRuleRead

SpecReceiptRuleRead == InitReceiptRuleRead /\ [][NextReceiptRuleRead]_vars

----------------------------------------------------------------------------
(* The SES receipt rule resource (src/unnamed/part_002): buildReceiptRule *)

\* the action blocks in the order buildReceiptRule reads them
ActionTypes ==
    <<"add_header_action", "bounce_action", "lambda_action", "s3_action",
      "sns_action", "stop_action", "workmail_action">>

Positions == 1..MaxActions

\* what an action block holds besides its position
ActionSettings == {"p", "q"}

ActionBlocks ==
    [type : Range(ActionTypes), position : Positions, setting : ActionSettings]

\* awstypes.ReceiptAction: the one field named by the type is set; it has no
\* position
ReceiptAction(block) == [type |-> block.type, setting |-> block.setting]

\* variant: the keys stay in the order the map yields them
sortInts_Unsorted(keys) == keys

\* sort.Ints
RECURSIVE sortInts(_)
sortInts(keys) ==
    IF keys = << >> THEN << >>
    ELSE LET rest == sortInts(Tail(keys))
             k    == Head(keys)
         IN  SelectSeq(rest, LAMBDA x : x <= k) \o <<k>>
             \o SelectSeq(rest, LAMBDA x : x > k)

\* actions[elem["position"]] = ReceiptAction{..} for the elements of a list,
\* in order
RECURSIVE PutActions(_, _)
PutActions(actions, list) ==
    IF list = << >> THEN actions
    ELSE PutActions(
            [p \in DOMAIN actions \cup {Head(list).position} |->
                IF p = Head(list).position THEN ReceiptAction(Head(list))
                ELSE actions[p]],
            Tail(list))

\* the blocks of type ActionTypes[t], ActionTypes[t+1], .. one after the other
RECURSIVE PutActionTypes(_, _, _)
PutActionTypes(actions, lists, t) ==
    IF t > Len(ActionTypes) THEN actions
    ELSE PutActionTypes(PutActions(actions, lists[ActionTypes[t]]),
                        lists, t + 1)

\* lists[type] is v.(*schema.Set).List() of the blocks of a type; iter is
\* an order of all positions, in which "for k := range actions" yields the
\* keys the map has
buildReceiptRule(d, lists, iter) ==
    LET actions == PutActionTypes(<< >>, lists, 1)
        keys    == sortInts(SelectSeq(iter, LAMBDA k : k \in DOMAIN actions))
    IN  [Name    |-> d.name,
         Enabled |-> d.enabled,
         Actions |-> [i \in 1..Len(keys) |-> actions[keys[i]]]]

\* the blocks of a type in the order of a list of all blocks
ListOfType(all, type) == SelectSeq(all, LAMBDA b : b.type = type)

InitBuildReceiptRule ==
    /\ \E blocks \in SetsUpTo(ActionBlocks, MaxActions), e \in BOOLEAN :
       \E all \in Orders(blocks) :
            arg = [d      |-> [name |-> "r1", enabled |-> e],
                   blocks |-> blocks,
                   lists  |-> [t \in Range(ActionTypes) |->
                                  ListOfType(all, t)]]
    /\ res = << >>
    /\ constraints = {}
    /\ name = Nil
    /\ home = [g \in GrantIds |-> 1]
    /\ MachineInit

BuildReceiptRule ==
    /\ res = << >>
    /\ \E iter \in Orders(Positions) :
            res' = buildReceiptRule(arg.d, arg.lists, iter)
    /\ UNCHANGED <<constraints, name, validated, isValid, arg, remoteVars, dataVars,
                   op, pc, finderVars, createAttempts, ret, existsRet,
                   histVars>>

NextBuildReceiptRule == BuildReceiptRule

SpecBuildReceiptRule == InitBuildReceiptRule /\ [][NextBuildReceiptRule]_vars

----------------------------------------------------------------------------
(* Tags of the logs service (src/internal/service/logs/tags_gen.go) *)

TagKeys    == {"k1", "k2", "aws:k"}
TagValues  == {"v1", "v2"}
AwsTagKeys == {k \in TagKeys : k = "aws:k"}

\* tftags.KeyValueTags
KeyValueTagsSet == UNION {[S -> TagValues] : S \in SUBSET TagKeys}

\* KeyValueTags.Removed: the tags whose key is not in newTags
Removed(oldTags, newTags) ==
    [k \in DOMAIN oldTags \ DOMAIN newTags |-> oldTags[k]]

\* KeyValueTags.Updated: the tags of newTags that oldTags does not have
\* with the same value
Updated(oldTags, newTags) ==
    [k \in {x \in DOMAIN newTags :
                x \notin DOMAIN oldTags \/ oldTags[x] # newTags[x]} |->
        newTags[k]]

\* KeyValueTags.IgnoreAWS: without the keys of the "aws:" prefix
IgnoreAWS(tags) == [k \in DOMAIN tags \ AwsTagKeys |-> tags[k]]

UntagResourceInput(identifier, removedTags) ==
    [api         |-> "UntagResource",
     ResourceArn |-> identifier,
     TagKeys     |-> DOMAIN IgnoreAWS(removedTags)]

TagResourceInput(identifier, updatedTags) ==
    [api         |-> "TagResource",
     ResourceArn |-> identifier,
     Tags        |-> IgnoreAWS(updatedTags)]

\* the service carries out an UntagResource or a TagResource call on the
\* tags of the resource
UntagResource(remote, input) ==
    [k \in DOMAIN remote \ input.TagKeys |-> remote[k]]

TagResource(remote, input) ==
    [k \in DOMAIN remote \cup DOMAIN input.Tags |->
        IF k \in DOMAIN input.Tags THEN input.Tags[k] ELSE remote[k]]

\* The run of one UpdateTags call: where it stands ("untag", "untagging",
\* "tag", "tagging", "returned"), the calls sent so far in order, how many of
\* them were answered, which of them the service failed, the returned error
\* and the tags of the remote resource
UpdateTagsBegin(oldTags) ==
    [pc |-> "untag", calls |-> << >>, answered |-> 0, failures |-> {},
     err |-> "none", remote |-> oldTags]

\* variant: the removed keys are untagged also when there are none
UpdateTagsUntag_Unguarded(r, identifier, oldTags, newTags) ==
    [r EXCEPT !.pc = "untagging",
              !.calls = Append(r.calls,
                               UntagResourceInput(identifier,
                                                  Removed(oldTags, newTags)))]

\* the first block up to the call of conn.UntagResourceWithContext
UpdateTagsUntag(r, identifier, oldTags, newTags) ==
    LET removedTags == Removed(oldTags, newTags)
    IN  IF MapLen(removedTags) > 0
        THEN [r EXCEPT !.pc = "untagging",
                       !.calls = Append(r.calls,
                                        UntagResourceInput(identifier,
                                                           removedTags))]
        ELSE [r EXCEPT !.pc = "tag"]

\* variant: the error of UntagResource is not looked at
UpdateTagsUntagged_ErrorDropped(r, failed) ==
    [r EXCEPT !.pc = "tag",
              !.answered = r.answered + 1,
              !.failures = IF failed THEN r.failures \cup {"UntagResource"}
                           ELSE r.failures,
              !.remote = IF failed THEN r.remote
                         ELSE UntagResource(r.remote, r.calls[Len(r.calls)])]

\* conn.UntagResourceWithContext has answered
UpdateTagsUntagged(r, failed) ==
    IF failed
    THEN [r EXCEPT !.pc = "returned",
                   !.answered = r.answered + 1,
                   !.failures = r.failures \cup {"UntagResource"},
                   !.err = "untagging resource"]
    ELSE [r EXCEPT !.pc = "tag",
                   !.answered = r.answered + 1,
                   !.remote = UntagResource(r.remote, r.calls[Len(r.calls)])]

\* the second block up to the call of conn.TagResourceWithContext, or the
\* final return when there is nothing to tag
UpdateTagsTag(r, identifier, oldTags, newTags) ==
    LET updatedTags == Updated(oldTags, newTags)
    IN  IF MapLen(updatedTags) > 0
        THEN [r EXCEPT !.pc = "tagging",
                       !.calls = Append(r.calls,
                                        TagResourceInput(identifier,
                                                         updatedTags))]
        ELSE [r EXCEPT !.pc = "returned", !.err = "nil"]

\* conn.TagResourceWithContext has answered
UpdateTagsTagged(r, failed) ==
    IF failed
    THEN [r EXCEPT !.pc = "returned",
                   !.answered = r.answered + 1,
                   !.failures = r.failures \cup {"TagResource"},
                   !.err = "tagging resource"]
    ELSE [r EXCEPT !.pc = "returned",
                   !.answered = r.answered + 1,
                   !.err = "nil",
                   !.remote = TagResource(r.remote, r.calls[Len(r.calls)])]

\* the resource has the old tags when UpdateTags is called
InitUpdateTags ==
    /\ \E o \in KeyValueTagsSet, n \in KeyValueTagsSet :
            /\ arg = [identifier |-> "arn", oldTags |-> o, newTags |-> n]
            /\ res = UpdateTagsBegin(o)
    /\ constraints = {}
    /\ name = Nil
    /\ home = [g \in GrantIds |-> 1]
    /\ MachineInit

UpdateTagsFrame ==
    UNCHANGED <<constraints, name, validated, isValid, arg, remoteVars,
                dataVars, op, pc, finderVars, createAttempts, ret, existsRet,
                histVars>>

UpdateTagsSendUntag ==
    /\ res.pc = "untag"
    /\ res' = UpdateTagsUntag(res, arg.identifier, arg.oldTags, arg.newTags)
    /\ UpdateTagsFrame

UntagResourceAnswers ==
    /\ res.pc = "untagging"
    /\ \E failed \in BOOLEAN : res' = UpdateTagsUntagged(res, failed)
    /\ UpdateTagsFrame

UpdateTagsSendTag ==
    /\ res.pc = "tag"
    /\ res' = UpdateTagsTag(res, arg.identifier, arg.oldTags, arg.newTags)
    /\ UpdateTagsFrame

TagResourceAnswers ==
    /\ res.pc = "tagging"
    /\ \E failed \in BOOLEAN : res' = UpdateTagsTagged(res, failed)
    /\ UpdateTagsFrame

NextUpdateTags ==
    \/ UpdateTagsSendUntag
    \/ UntagResourceAnswers
    \/ UpdateTagsSendTag
    \/ TagResourceAnswers

SpecUpdateTags == InitUpdateTags /\ [][NextUpdateTags]_vars

----------------------------------------------------------------------------
(* Properties *)

\* the non-empty mappings of a constraint set, over both kinds and all elements
NonEmptyMappings(set) ==
    {p \in set \X Kinds : p[2] \in DOMAIN p[1] /\ DOMAIN p[1][p[2]] # {}}

\* the markers of a walk over the first n pages: nil, then each page's
\* NextMarker
MarkersOfPages(n) == [i \in 1..n |-> IF i = 1 THEN Nil ELSE Ptr(i - 1)]

\* the page a marker asks for
PageOfMarker(m) == IF m = Nil THEN 1 ELSE Deref(m) + 1

Returned(h) == op = h /\ pc = "idle" /\ ret # "none"

\* C1: whenever resourceAwsKmsGrantCreate returns without error, the grant
\* whose id CreateGrant returned was found on a ListGrants page fetched during
\* that Create call, after CreateGrant succeeded.
C1_CreateSuccessMeansListed ==
    (Returned("create") /\ ret = "nil") =>
        /\ createdId # ""
        /\ foundOnPage
        /\ finderRet.grant = createdId
        /\ finderRet.err = "nil"

\* a Create that succeeded on its second lookup
C1_Witness ==
    /\ Returned("create") /\ ret = "nil"
    /\ findAttempts = 2
    /\ finderRet.grant = createdId

\* C2 (as claimed): a Read for a grant id that is absent from every page of
\* the listing returns no error and clears the identifier.
C2_ReadOfAbsentClearsId ==
    (Returned("read") /\ ~listed) => (ret = "nil" /\ id = "")

\* C3 (as claimed): when a page fetch inside findKmsGrantById ends with a
\* non-retryable error, findKmsGrantById returns that error to its caller.
C3_FatalPageErrorReturned ==
    (pageErr # "nil" /\ pageErr \notin {"NotFoundException",
                                        "DependencyTimeoutException",
                                        "InternalException"})
        => (finderRet.err = pageErr /\ finderRet.grant = "nil")

\* C4: with an invalid constraint set (more than one non-empty mapping)
\* Create returns a validation error, CreateGrant is never called and the
\* identifier stays unset.
C4_InvalidConstraintsRejected ==
    Cardinality(NonEmptyMappings(constraints)) > 1 =>
        /\ id = ""
        /\ createAttempts = 0
        /\ pc # "CreateGrant"
        /\ createdId = ""
        /\ (op = "create" => (pc = "idle" /\ ret = ValidationError))

C4_Witness ==
    /\ Returned("create")
    /\ ret = ValidationError
    /\ constraints = {Elem(X1, EmptyMap), Elem(EmptyMap, Y2)}

\* C5: kmsGrantConstraintsIsValid is true exactly when the number of
\* non-empty mappings, over both kinds and all elements, is at most 1.
C5_ValidIffAtMostOneMapping ==
    validated =>
        (isValid <=> Cardinality(NonEmptyMappings(constraints)) <= 1)

\* equals{x:1} together with subset{y:2} in one element is invalid
C5_Witness ==
    /\ validated
    /\ constraints = {Elem(X1, Y2)}
    /\ ~isValid

\* C6: a CreateGrant failure with code DependencyTimeoutException,
\* InternalException or InvalidArnException is retried (until the deadline);
\* any other failure ends the loop at once: no further call, the error is
\* returned and the identifier is not set.
C6_CreateGrantClassification ==
    (op = "create" /\ callErr # "nil") =>
        IF callErr \in {"DependencyTimeoutException", "InternalException",
                        "InvalidArnException"}
        THEN IF deadline
             THEN /\ pc = "idle"
                  /\ ret = CreateGrantRetryError(callErr)
                  /\ id = ""
             ELSE pc = "CreateGrant" /\ ret = "none"
        ELSE /\ pc = "idle"
             /\ ret = callErr
             /\ id = ""
             /\ createdId = ""
             /\ ~deadline

\* a second CreateGrant call is pending after an InvalidArnException
C6_Witness ==
    /\ op = "create"
    /\ pc = "CreateGrant"
    /\ callErr = "InvalidArnException"
    /\ createAttempts = 1

\* C7: resourceAwsKmsGrantDelete calls RevokeGrant exactly once; if the call
\* fails Delete returns the error, polls no listing and leaves the identifier
\* unchanged.
C7_DeleteRevokesOnce ==
    op = "delete" =>
        /\ revokeCalls = 1
        /\ callErr # "nil" =>
             /\ pc = "idle"
             /\ ret = callErr
             /\ id = idBefore
             /\ findAttempts = 0
             /\ walk = << >>
             /\ finderRet = NoReturn

C7_Witness ==
    /\ Returned("delete")
    /\ callErr = "NotFoundException"
    /\ id # ""

\* C8 (as claimed): Delete returns success and clears the identifier only
\* after a complete walk that found the grant on no page; while walks find
\* the grant the wait does not report success; a finder error other than
\* "missing" ends the wait with that error and the identifier not cleared.
C8_DeleteWaitsForMissing ==
    op = "delete" =>
        /\ (pc = "idle" /\ ret = "nil") =>
              /\ id = ""
              /\ finderRet.err = KmsGrantMissingError
              /\ finderRet.walk = MarkersOfPages(NPages)
        /\ (id # idBefore) => (pc = "idle" /\ ret = "nil")
        /\ (finderRet.grant # "nil") => (ret # "nil" /\ id = idBefore)
        /\ (pageErr # "nil") =>
              (pc = "idle" /\ ret = pageErr /\ id = idBefore)

\* C9: findKmsGrantById returns the match as soon as a page contains it and
\* fetches no later page: with the match first on page k exactly k pages are
\* fetched, the first with a nil marker and each later one with the NextMarker
\* of the page before it.
C9_FinderStopsAtMatch ==
    /\ [](finderRet.grant # "nil" =>
            /\ finderRet.grant = target
            /\ finderRet.err = "nil"
            /\ finderRet.walk = MarkersOfPages(home[target]))
    /\ [][(pc = "ListGrants" /\ pc' = "ListGrants"
            /\ walk' = Append(walk, marker))
          => (/\ target \notin Range(PageSeq(PageOfMarker(marker)))
              /\ marker' = ListGrantsResponse(marker).NextMarker)]_vars

\* a match on the last page, after a walk over all pages
C9_Witness ==
    /\ finderRet.grant # "nil"
    /\ home[finderRet.grant] = NPages
    /\ Len(finderRet.walk) = NPages

\* C10: when the listing is exhausted without a match findKmsGrantById
\* returns a nil grant with a KmsGrantMissingError, which is not an API error,
\* and every page was fetched once, in order.
C10_ExhaustedListingIsMissing ==
    /\ KmsGrantMissingError \notin ApiErrors
    /\ (finderRet.err \notin {"none", Panic} /\ finderRet.grant = "nil") =>
          /\ finderRet.err = KmsGrantMissingError
          /\ finderRet.walk = MarkersOfPages(NPages)
    /\ finderRet.err = KmsGrantMissingError => finderRet.grant = "nil"

C10_Witness ==
    /\ finderRet.err = KmsGrantMissingError
    /\ Len(finderRet.walk) = NPages
    /\ visible # {}

\* C11 (as claimed): resourceAwsKmsGrantRead performs a single walk of the
\* listing; a missing result of the finder is not retried by Read, only the
\* ListGrants call of one page is.
C11_ReadSingleWalk ==
    /\ Returned("read") => findAttempts = 1
    /\ (op = "read" /\ pc = "ListGrants") => (findAttempts = 0 /\ misses = 0)

\* C12: when the first k lookups of findKmsGrantByIdWithRetry report missing
\* and lookup k+1 finds the grant within the deadline, the grant is returned
\* with no error after exactly k+1 lookups; each missing result within the
\* deadline starts a new lookup from the first page.
C12_FoundAfterMisses ==
    /\ (op \in {"create", "read", "exists"} /\ pc = "idle"
        /\ finderRet.grant # "nil") =>
          /\ ret = "nil"
          /\ finderRet.err = "nil"
          /\ finderRet.grant = target
          /\ findAttempts = misses + 1
          /\ ~deadline
    /\ [][(op \in {"create", "read", "exists"} /\ misses' = misses + 1
            /\ ~deadline')
          => (/\ pc' = "ListGrants"
              /\ marker' = Nil
              /\ walk' = << >>
              /\ findAttempts' = findAttempts + 1)]_vars

\* missing, missing, found: success on the third lookup
C12_Witness ==
    /\ op = "create" /\ pc = "idle" /\ ret = "nil"
    /\ misses = 2
    /\ findAttempts = 3
    /\ ~deadline
    /\ finderRet.grant = target
    /\ finderRet.err = "nil"

\* C13: when the grant id is on no page of the listing,
\* waitForKmsGrantToBeRevoked returns success after exactly one walk of the
\* listing, with no retry.
C13_AbsentGrantWaitSucceedsAtOnce ==
    (Returned("delete") /\ callErr = "nil" /\ ~listed) =>
        /\ ret = "nil"
        /\ id = ""
        /\ findAttempts = 1
        /\ misses = 1
        /\ ~deadline
        /\ finderRet.err = KmsGrantMissingError
        /\ finderRet.walk = MarkersOfPages(NPages)

\* a Delete of a grant that the listing never showed
C13_Witness ==
    /\ Returned("delete") /\ callErr = "nil" /\ ~listed
    /\ ret = "nil"
    /\ findAttempts = 1
    /\ Len(finderRet.walk) = NPages

\* C14: a CreateGrant retry loop whose every attempt fails with a retryable
\* error ends once the deadline is exhausted and returns an error carrying
\* the last failure (the error the closure built around it), never success;
\* Create then returns that error and sets no identifier.  The loop never
\* runs forever.
C14_RetryLoopEndsAtDeadline ==
    /\ [](pc = "CreateGrant" =>
            /\ createAttempts < MaxAttempts
            /\ id = ""
            /\ createdId = ""
            /\ createAttempts > 0 =>
                  callErr \in {"DependencyTimeoutException",
                               "InternalException", "InvalidArnException"})
    /\ []((op = "create" /\ pc = "idle" /\ createdId = ""
           /\ callErr \in {"DependencyTimeoutException", "InternalException",
                           "InvalidArnException"}) =>
            /\ deadline
            /\ ret = CreateGrantRetryError(callErr)
            /\ ret \notin ApiErrors \cup {"nil", "none"}
            /\ id = ""
            /\ grant_id = "")
    /\ (pc = "CreateGrant") ~>
          (createdId # ""
           \/ (/\ pc = "idle"
               /\ ret \in {callErr, CreateGrantRetryError(callErr)}
               /\ id = ""))

\* every attempt failed retryably and the deadline ended the loop
C14_Witness ==
    /\ op = "create" /\ pc = "idle"
    /\ createAttempts = MaxAttempts
    /\ deadline
    /\ callErr = "InternalException"
    /\ ret = CreateGrantRetryError("InternalException")
    /\ id = ""

\* C15: a ListGrants failure with code NotFoundException,
\* DependencyTimeoutException or InternalException is retried inside the page
\* fetch and does not reach the caller of findKmsGrantById before the
\* page-fetch deadline has expired; when a later attempt succeeds the page
\* is processed as if no attempt had failed.
C15_TransientListErrorsAbsorbed ==
    /\ []((pc = "ListGrants" /\ pageAttempts > 0) =>
            /\ listErr \in {"NotFoundException", "DependencyTimeoutException",
                            "InternalException"}
            /\ pageAttempts < MaxAttempts
            /\ finderRet.err \in {"none", "nil", KmsGrantMissingError})
    /\ []((listErr \in {"NotFoundException", "DependencyTimeoutException",
                        "InternalException"} /\ pc # "ListGrants") =>
            (pc = "crashed" /\ deadline))
    /\ [][(pc = "ListGrants" /\ pageAttempts > 0 /\ listErr' = "nil") =>
            LET p == PageOfMarker(marker)
            IN  IF target \in Range(PageSeq(p))
                THEN /\ finderRet'.grant = target
                     /\ finderRet'.err = "nil"
                     /\ finderRet'.walk = Append(walk, marker)
                ELSE IF p < NPages
                     THEN /\ pc' = "ListGrants"
                          /\ marker' = Ptr(p)
                          /\ walk' = Append(walk, marker)
                          /\ pageAttempts' = 0
                     ELSE /\ finderRet'.grant = "nil"
                          /\ finderRet'.err = KmsGrantMissingError
                          /\ finderRet'.walk = Append(walk, marker)]_vars

\* a failed ListGrants call of the second page is being retried
C15_Witness ==
    /\ pc = "ListGrants"
    /\ pageAttempts = 1
    /\ listErr = "NotFoundException"
    /\ Len(walk) = 1
    /\ findAttempts = 0

\* C20: after a successful Create the identifier and grant_id both equal the
\* GrantId that CreateGrant returned, and no later operation changes a set
\* identifier to another non-empty value: it is kept or cleared.
C20_IdentifierFromCreateGrant ==
    /\ []((Returned("create") /\ ret = "nil") =>
            /\ createdId \in issued
            /\ id = createdId
            /\ grant_id = createdId)
    /\ [](id # "" => (id \in issued /\ grant_id = id))
    /\ [][id # "" => id' \in {id, ""}]_vars
    /\ [][id' # id => (op' = "create" \/ (op' = "delete" /\ id' = ""))]_vars

\* a successful Create that holds the service's id and token
C20_Witness ==
    /\ Returned("create") /\ ret = "nil"
    /\ id = createdId
    /\ grant_id = "g2"
    /\ grant_token = TokenOf("g2")

\* where the grant of this resource is in its lifecycle
Phase ==
    IF pc = "crashed" THEN "crashed"
    ELSE IF op = "create" /\ pc # "idle" THEN "creating"
    ELSE IF op = "delete" /\ pc # "idle" THEN "revoking"
    ELSE IF id = "" THEN "absent"
    ELSE "active"

\* the lifecycle, and the steps by which a failed Create or Delete falls back
LifecycleSteps ==
    {<<"absent", "creating">>, <<"creating", "active">>,
     <<"active", "revoking">>, <<"revoking", "absent">>}

FailureSteps ==
    {<<"creating", "absent">>, <<"revoking", "active">>}

\* the attributes a configuration can set
ConfigurableAttributes == {a \in DOMAIN Schema : ~Schema[a].Computed}

\* C16: the resource has no update transition: the operations are Create,
\* Read, Exists and Delete, the only remote calls they issue are CreateGrant,
\* ListGrants and RevokeGrant, a grant moves absent -> creating -> active ->
\* revoking -> absent, and every configurable attribute is force-new.
C16_NoUpdateTransition ==
    /\ "update" \notin ResourceHandlers
    /\ ConfigurableAttributes =
          {"name", "key_id", "grantee_principal", "operations", "constraints",
           "retiring_principal", "grant_creation_tokens"}
    /\ \A a \in ConfigurableAttributes : Schema[a].ForceNew
    /\ \A k \in Kinds : ConstraintsElemSchema[k].ForceNew
    /\ [](/\ op \in ResourceHandlers \cup {"none"}
          /\ pc \in {"idle", "CreateGrant", "ListGrants", "crashed"}
          /\ revokeCalls \in {0, 1}
          /\ revokeCalls = 1 => op = "delete")
    /\ [][Phase' # Phase =>
            \/ <<Phase, Phase'>> \in LifecycleSteps \cup FailureSteps
            \/ Phase' = "crashed"]_vars
    /\ [][remoteGrants' # remoteGrants =>
            \/ UNCHANGED <<op, pc, id, ret, createAttempts>>
            \/ /\ pc = "CreateGrant"
               /\ createdId' \notin issued
               /\ remoteGrants' = remoteGrants \cup {createdId'}
            \/ /\ op' = "delete" /\ revokeCalls' = 1
               /\ remoteGrants' = remoteGrants \ {grant_id}]_vars

\* a grant that went through the whole lifecycle
C16_Witness ==
    /\ Returned("delete") /\ ret = "nil"
    /\ Phase = "absent"
    /\ idBefore \in issued
    /\ idBefore \notin remoteGrants

\* C17: resourceKmsGrantConstraintsHash gives the same value for the same
\* kinds and key/value pairs whatever the order in which the map entries are
\* iterated, because the keys are serialized in ascending order.
C17_HashIgnoresIterationOrder ==
    res # << >> =>
        /\ res.hashA = res.hashB
        /\ \A k \in Kinds :
              LET m == stringMapToPointers(arg.elem[k])
                  a == sortStringMapKeys(m, arg.iterA[k])
              IN  /\ a = sortStringMapKeys(m, arg.iterB[k])
                  /\ Range(a) = DOMAIN m
                  /\ \A i \in 1..(Len(a) - 1) : StrLess(Str(a[i]), Str(a[i + 1]))

\* equals {x:1, y:2} hashed as x,y and as y,x
C17_Witness ==
    /\ res # << >>
    /\ arg.elem["encryption_context_equals"] = [k \in Keys |-> IF k = "x" THEN "1" ELSE "2"]
    /\ arg.iterA["encryption_context_equals"] = <<"x", "y">>
    /\ arg.iterB["encryption_context_equals"] = <<"y", "x">>
    /\ res.hashA = res.hashB

\* C18: an empty mapping adds nothing to the fingerprint, so the one element
\* that flattenKmsGrantConstraints builds from the grant's constraints has
\* the fingerprint of the configured element with the same non-empty
\* mapping(s).
C18_EmptyMappingAddsNothing ==
    (res # << >> /\ \E k \in Kinds : arg.elem[k] # EmptyMap) =>
        /\ Cardinality(res.flat) = 1
        /\ \A m \in res.flat :
              /\ DOMAIN m = {k \in Kinds : arg.elem[k] # EmptyMap}
              /\ \A k \in DOMAIN m : m[k] = arg.elem[k]
        /\ res.hashFlat = {res.hashA}
        /\ res.hashA # hashcodeString(<< >>)

\* configured {equals: {x:1}, subset: {}}, reported with equals only
C18_Witness ==
    /\ res # << >>
    /\ arg.elem = Elem(X1, EmptyMap)
    /\ Deref(arg.remote).EncryptionContextSubset = Nil
    /\ res.flat = {[k \in {"encryption_context_equals"} |-> X1]}
    /\ res.hashFlat = {res.hashA}

\* whether a reported principal is an ARN, character by character
LooksLikeArn(q) ==
    /\ Len(q) >= 7
    /\ q[1] = "a" /\ q[2] = "r" /\ q[3] = "n" /\ q[4] = ":"
    /\ q[5] = "a" /\ q[6] = "w" /\ q[7] = "s"

\* C19: on Read of a found grant, grantee_principal, and retiring_principal
\* when one is reported, is overwritten in the local state only if the
\* reported value starts with "arn:aws"; otherwise the locally held value
\* is left unchanged.
C19_PrincipalsKeptUnlessArn ==
    res # << >> =>
        LET g == Deref(arg.grant.GranteePrincipal)
            r == arg.grant.RetiringPrincipal
        IN  /\ res.d.grantee_principal =
                  IF LooksLikeArn(g) THEN g ELSE arg.d.grantee_principal
            /\ res.d.retiring_principal =
                  IF r # Nil /\ LooksLikeArn(Deref(r)) THEN Deref(r)
                  ELSE arg.d.retiring_principal

\* the grantee is reported as a unique id and the retiring principal as an
\* ARN that differs from the local one
C19_Witness ==
    /\ res # << >>
    /\ ~res.panic
    /\ Deref(arg.grant.GranteePrincipal) = <<"A", "x">>
    /\ res.d.grantee_principal = arg.d.grantee_principal
    /\ arg.grant.RetiringPrincipal # Nil
    /\ res.d.retiring_principal = Deref(arg.grant.RetiringPrincipal)
    /\ res.d.retiring_principal # arg.d.retiring_principal

\* C21 as stated: lifecycles of distinct grants of one key are independent:
\* under any interleaving of operations on the other grant, the finder for
\* one id never returns another grant's entry, and no lookup of Read or of
\* the revocation wait reports its grant missing while the grant has been
\* listed since that lookup began.
C21_GrantsAreIndependent ==
    /\ [](finderRet.grant \in {"nil", target})
    /\ [][(op \in {"read", "delete"} /\ misses' = misses + 1)
            => walkView = "unlisted"]_vars

\* C21: the finder for one id never returns another grant's entry, and
\* whenever the page of the sought grant is fetched while that grant is
\* listed the finder returns it, whatever was created or revoked beside it;
\* a lookup of Read or of the revocation wait reports a grant missing that
\* has been listed since the lookup began only when the listing moved that
\* grant to an earlier page, one the walk had passed, after another grant
\* was revoked; a Delete takes only its own grant from the key.
C21_IndependentUnlessRepaginated ==
    /\ [](finderRet.grant \in {"nil", target})
    /\ [][(/\ pc = "ListGrants"
            /\ listErr' = "nil"
            /\ (walk' = Append(walk, marker)
                \/ findAttempts' = findAttempts + 1)
            /\ target \in visible /\ home[target] = PageOfMarker(marker))
          => (/\ finderRet'.grant = target
              /\ finderRet'.err = "nil"
              /\ finderRet'.walk = Append(walk, marker)
              /\ misses' = misses)]_vars
    /\ [][(misses' = misses + 1) =>
            (target \notin visible \/ home[target] # NPages)]_vars
    /\ [][(op \in {"read", "delete"} /\ misses' = misses + 1
            /\ walkView # "unlisted")
          => (/\ walkView = "moved"
              /\ target \in visible
              /\ home[target] < NPages
              /\ \E g \in issued \ (remoteGrants \cup visible) :
                    home[g] <= home[target])]_vars
    /\ [][(op' = "delete" /\ pc = "idle" /\ pc' = "ListGrants") =>
            remoteGrants' = remoteGrants \ {grant_id}]_vars

\* a Read whose lookup found its grant although the listing had moved the
\* grant to the page of a revoked grant during the walk
C21_Witness ==
    /\ op = "read" /\ pc = "idle" /\ ret = "nil"
    /\ finderRet.grant = target
    /\ walkView = "moved"
    /\ \E g \in GrantIds \ {target} :
          /\ home[g] = home[target]
          /\ g \in issued \ (remoteGrants \cup visible)

\* C26: when every page fetch succeeds findKmsGrantById returns either a
\* grant with a nil error or a nil grant with a KmsGrantMissingError, never
\* (nil, nil); so findKmsGrantByIdWithRetry never returns a nil grant with a
\* nil error and Read never takes the branch that clears the identifier.
C26_NeverNilNil ==
    /\ [](finderRet.err \notin {"none", Panic} =>
            \/ (finderRet.grant # "nil" /\ finderRet.err = "nil")
            \/ (finderRet.grant = "nil"
                /\ finderRet.err = KmsGrantMissingError))
    /\ []((op \in {"create", "read", "exists"} /\ pc = "idle"
           /\ ret = "nil" /\ finderRet.err # "none") => finderRet.grant # "nil")
    /\ []((Returned("read") /\ idBefore # "") => id = idBefore)
    /\ [][(id # "" /\ id' = "") => op' = "delete"]_vars

\* a Read that looked for an absent grant until the deadline keeps the id
C26_Witness ==
    /\ Returned("read")
    /\ ret = KmsGrantMissingError
    /\ deadline
    /\ finderRet.grant = "nil"
    /\ id # "" /\ id = idBefore

\* C27 (as claimed): resourceAwsKmsGrantExists returns (false, nil) when the
\* grant id is on no page of the listing, and returns true only when the
\* grant was found or an error is returned with it.
C27_ExistsOfAbsentIsFalse ==
    /\ (Returned("exists") /\ ~listed) => (~existsRet /\ ret = "nil")
    /\ (Returned("exists") /\ existsRet) =>
          (finderRet.grant # "nil" \/ ret # "nil")

\* C30: when CreateGrant succeeded and the visibility wait that follows
\* fails, Create returns the error with the identifier, grant_id and
\* grant_token set to what CreateGrant returned: a grant made for this
\* resource is never without a local identifier.
C30_IdentifierSetBeforeWait ==
    /\ (op = "create" /\ createdId # "") =>
          /\ id = createdId
          /\ grant_id = createdId
          /\ grant_token = TokenOf(createdId)
    /\ (Returned("create") /\ createdId # "" /\ finderRet.grant = "nil") =>
          /\ ret = KmsGrantMissingError
          /\ deadline

\* the wait timed out while the grant exists remotely
C30_Witness ==
    /\ Returned("create")
    /\ ret = KmsGrantMissingError
    /\ createdId \in remoteGrants
    /\ id = createdId
    /\ grant_token = TokenOf(createdId)

\* the field of a request's constraints for a kind
RequestField(c, k) ==
    IF k = "encryption_context_equals" THEN c.EncryptionContextEquals
    ELSE c.EncryptionContextSubset

\* C28 as stated: for a valid constraint set, expandKmsGrantConstraints puts
\* the one non-empty mapping, unchanged, into the CreateGrant request under
\* its own kind, whatever elements with empty mappings the set also contains
\* and in whatever order the elements are iterated.
C28_ExpandKeepsTheMapping ==
    (res # << >> /\ res.valid) =>
        \A p \in NonEmptyMappings(arg.set) :
            /\ res.Constraints # Nil
            /\ RequestField(Deref(res.Constraints), p[2]) # Nil
            /\ pointersMapToStringList(
                   Deref(RequestField(Deref(res.Constraints), p[2])))
                 = p[1][p[2]]
            /\ \A k \in Kinds \ {p[2]} :
                  LET f == RequestField(Deref(res.Constraints), k)
                  IN  f = Nil \/ MapLen(Deref(f)) = 0

\* C28: for a valid constraint set, the CreateGrant request carries under
\* each kind the mapping of the element iterated last: the one non-empty
\* mapping is in the request, unchanged and under its own kind, exactly when
\* its element is iterated after every element with empty mappings, and is
\* replaced by an empty mapping otherwise; the other kind is never filled.
C28_LastElementDecides ==
    (res # << >> /\ res.valid) =>
        \A p \in NonEmptyMappings(arg.set) :
            LET last == arg.list[Len(arg.list)]
                f    == RequestField(Deref(res.Constraints), p[2])
            IN  /\ res.Constraints # Nil
                /\ f # Nil
                /\ pointersMapToStringList(Deref(f)) = last[p[2]]
                /\ (pointersMapToStringList(Deref(f)) = p[1][p[2]])
                      <=> (last = p[1])
                /\ (last # p[1]) => MapLen(Deref(f)) = 0
                /\ \A k \in Kinds \ {p[2]} :
                      LET o == RequestField(Deref(res.Constraints), k)
                      IN  o = Nil \/ MapLen(Deref(o)) = 0

\* the element with the mapping {x:1} iterated after an element whose
\* mappings are empty: the request carries {x:1}
C28_Witness ==
    /\ res # << >>
    /\ res.valid
    /\ arg.list = <<Elem(EmptyMap, EmptyMap), Elem(X1, EmptyMap)>>
    /\ Deref(res.Constraints).EncryptionContextEquals
          = Ptr(stringMapToPointers(X1))

\* C29: the string resourceKmsGrantConstraintsHash serializes is injective:
\* two elements that differ in a kind or in a key/value pair of a non-empty
\* mapping serialize to different strings.
C29_SerializationInjective ==
    (res # << >> /\ arg.a # arg.b) => res.bufA # res.bufB

\* the positions of the separator in an id
ColonsOf(s) == {i \in 1..Len(s) : s[i] = ":"}

\* C22: resourceReceiptRuleImport accepts an id only when it is two non-empty
\* parts around one ':'; it then sets rule_set_name to the first part and
\* name and the identifier to the second.  For any other id it returns an
\* error and leaves the attributes and the identifier as they were.
C22_ImportSplitsTwoParts ==
    res # << >> =>
        LET s  == arg.id
            ok == \E i \in 2..(Len(s) - 1) : ColonsOf(s) = {i}
        IN  /\ res.err = ~ok
            /\ ok => \E i \in ColonsOf(s) :
                        /\ res.d.rule_set_name = SubSeq(s, 1, i - 1)
                        /\ res.d.name = SubSeq(s, i + 1, Len(s))
                        /\ res.d.id = SubSeq(s, i + 1, Len(s))
            /\ ~ok => res.d = arg

\* the id "ab:a" was imported
C22_Witness ==
    /\ res # << >>
    /\ arg.id = <<"a", "b", ":", "a">>
    /\ ~res.err
    /\ res.d = [id |-> <<"a">>, rule_set_name |-> <<"a", "b">>,
                name |-> <<"a">>]

\* C23: resourceReceiptRuleRead treats a rule or rule set the service does
\* not know by phase: for a resource that is not new it clears the identifier
\* and returns no error, for a new resource it returns an error and keeps the
\* identifier; any other describe error is returned as an error.
C23_NotFoundByPhase ==
    res # << >> =>
        LET e == arg.described.err
        IN  /\ (e \in {RuleDoesNotExist, RuleSetDoesNotExist}
                /\ ~arg.isNewResource)
                  => (res.d.id = "" /\ res.err = "nil")
            /\ (e \in {RuleDoesNotExist, RuleSetDoesNotExist}
                /\ arg.isNewResource)
                  => (res.err # "nil" /\ res.d = arg.d)
            /\ e = OtherDescribeError
                  => (res.err # "nil" /\ res.d = arg.d)

\* the read that follows a create found no rule set
C23_Witness ==
    /\ res # << >>
    /\ arg.isNewResource
    /\ arg.described.err = RuleSetDoesNotExist
    /\ res.err = NotFoundError
    /\ res.d.id = arg.d.id

\* C25: buildReceiptRule emits the rule's actions in strictly ascending order
\* of their configured position, whatever the types of the actions and
\* whatever the order in which the blocks are iterated: the emitted actions
\* are configured blocks, one for every configured position, by ascending
\* position; with distinct positions these are all the blocks.
C25_ActionsAscendByPosition ==
    res # << >> =>
        LET out == res.Actions
        IN  \E f \in [1..Len(out) -> arg.blocks] :
                /\ \A i \in 1..Len(out) : out[i] = ReceiptAction(f[i])
                /\ \A i, j \in 1..Len(out) :
                      i < j => f[i].position < f[j].position
                /\ {f[i].position : i \in 1..Len(out)}
                      = {b.position : b \in arg.blocks}
                /\ (\A a, b \in arg.blocks :
                        a # b => a.position # b.position)
                      => Range(f) = arg.blocks

\* a workmail action at position 1 and an add-header action at position 2:
\* the block read last is emitted first
C25_Witness ==
    /\ res # << >>
    /\ arg.blocks = {[type |-> "workmail_action", position |-> 1,
                      setting |-> "p"],
                     [type |-> "add_header_action", position |-> 2,
                      setting |-> "q"]}
    /\ res.Actions = <<[type |-> "workmail_action", setting |-> "p"],
                       [type |-> "add_header_action", setting |-> "q"]>>

\* the names of the calls of a call list, in order
ApisOf(calls) == [i \in 1..Len(calls) |-> calls[i].api]

\* C24: UpdateTags of the logs service calls UntagResource for the removed
\* keys first and TagResource for the added or changed tags second, each only
\* when its tag set is not empty, so equal old and new tags cause no call;
\* TagResource is sent only after UntagResource has answered, and when
\* UntagResource fails, TagResource is not called and the error is returned.
C24_UntagThenTag ==
    LET removed == DOMAIN arg.oldTags \ DOMAIN arg.newTags
        changed == {k \in DOMAIN arg.newTags :
                        k \notin DOMAIN arg.oldTags
                        \/ arg.oldTags[k] # arg.newTags[k]}
        apis    == ApisOf(res.calls)
        sent(a) == a \in Range(apis)
    IN  /\ apis \in {<< >>, <<"UntagResource">>, <<"TagResource">>,
                     <<"UntagResource", "TagResource">>}
        /\ sent("UntagResource") => removed # {}
        /\ sent("TagResource") =>
              /\ changed # {}
              /\ res.answered >= Len(apis) - 1
              /\ "UntagResource" \notin res.failures
        /\ "UntagResource" \in res.failures =>
              /\ res.pc = "returned"
              /\ res.err = "untagging resource"
              /\ apis = <<"UntagResource">>
        /\ res.pc \in {"tag", "tagging", "returned"} =>
              (sent("UntagResource") <=> removed # {})
        /\ (res.pc = "returned" /\ "UntagResource" \notin res.failures) =>
              (sent("TagResource") <=> changed # {})
        /\ arg.oldTags = arg.newTags =>
              (apis = << >> /\ res.err \in {"none", "nil"})

\* one key removed and one added, both calls succeeded
C24_Witness ==
    /\ res.pc = "returned"
    /\ DOMAIN arg.oldTags = {"k1"}
    /\ DOMAIN arg.newTags = {"k2"}
    /\ ApisOf(res.calls) = <<"UntagResource", "TagResource">>
    /\ res.calls[1].TagKeys = {"k1"}
    /\ res.err = "nil"
    /\ res.remote = arg.newTags

\* C31: buildReceiptRule loses no configured action: the built rule has as
\* many actions as there are action blocks configured over the seven action
\* types, also when two blocks carry the same position.
C31_NoActionLost ==
    res # << >> => Len(res.Actions) = Cardinality(arg.blocks)

====
